---------------------------- MODULE Spec2Model ----------------------------
(***************************************************************************)
(* A model of RAPID (robustness metrics): the three-stage transform        *)
(* pipeline (t1, t2, t3), the metric composer custom_R_metric, the named   *)
(* metrics, the tabular evaluator f_to_R and the comparison engine.        *)
(*                                                                         *)
(* Numbers.  A float is modelled as an extended rational <<n, d>>:         *)
(*   d > 0, gcd(n, d) = 1   the rational n/d                               *)
(*   <<0, 0>>               NaN                                            *)
(*   <<1, 0>>, <<-1, 0>>    +inf, -inf                                     *)
(* Arithmetic is exact (no rounding); division by zero follows IEEE 754    *)
(* (x/0 = +-inf, 0/0 = NaN); the sign of zero is not modelled.             *)
(*                                                                         *)
(* Arrays.  A numpy array value is [shape, data]: data is the row-major    *)
(* flat sequence of numbers, shape is <<>> (a Python scalar), <<n>> or     *)
(* <<m, n>>.  An array OBJECT is a reference [buf, shape, stride, list]    *)
(* into a heap of buffers, so that views (np.reshape, basic slices) share  *)
(* the buffer of their base and an in-place write is visible through every *)
(* alias.                                                                  *)
(***************************************************************************)
EXTENDS Integers, Sequences, FiniteSets, TLC

-----------------------------------------------------------------------------
(* Extended rationals *)

Abs(x) == IF x < 0 THEN -x ELSE x

Sign(x) == IF x < 0 THEN -1 ELSE IF x > 0 THEN 1 ELSE 0

RECURSIVE Gcd(_, _)
Gcd(a, b) == IF b = 0 THEN a ELSE Gcd(b, a % b)

NaN == <<0, 0>>

PosInf == <<1, 0>>

NegInf == <<-1, 0>>

Q(x) == <<x, 1>>

Zero == <<0, 1>>

One == <<1, 1>>

Two == <<2, 1>>

Norm(n, d) ==
    IF d = 0 THEN <<Sign(n), 0>>
    ELSE LET g == Gcd(Abs(n), Abs(d))
         IN  <<Sign(d) * (n \div g), Abs(d) \div g>>

IsNaN(a) == a = NaN

IsInf(a) == a[2] = 0 /\ a[1] # 0

IsFinite(a) == a[2] > 0

QNeg(a) == <<-a[1], a[2]>>

QAdd(a, b) ==
    IF IsNaN(a) \/ IsNaN(b) THEN NaN
    ELSE IF IsInf(a) THEN (IF IsInf(b) /\ b # a THEN NaN ELSE a)
    ELSE IF IsInf(b) THEN b
    ELSE Norm(a[1] * b[2] + b[1] * a[2], a[2] * b[2])

QSub(a, b) == QAdd(a, QNeg(b))

QMul(a, b) ==
    IF IsNaN(a) \/ IsNaN(b) THEN NaN
    ELSE IF a[2] = 0 \/ b[2] = 0 THEN <<Sign(a[1]) * Sign(b[1]), 0>>
    ELSE Norm(a[1] * b[1], a[2] * b[2])

QDiv(a, b) ==
    IF IsNaN(a) \/ IsNaN(b) THEN NaN
    ELSE IF IsInf(b) THEN (IF IsInf(a) THEN NaN ELSE Zero)
    ELSE IF IsInf(a) THEN <<a[1] * (IF b[1] < 0 THEN -1 ELSE 1), 0>>
    ELSE Norm(a[1] * b[2], a[2] * b[1])

QAbs(a) == <<Abs(a[1]), a[2]>>

\* a < b; every comparison with NaN is false
QLt(a, b) ==
    /\ ~IsNaN(a)
    /\ ~IsNaN(b)
    /\ IF a[2] = 0 THEN a = NegInf /\ b # NegInf
       ELSE IF b[2] = 0 THEN b = PosInf
       ELSE a[1] * b[2] < b[1] * a[2]

QLe(a, b) == ~IsNaN(a) /\ ~IsNaN(b) /\ (a = b \/ QLt(a, b))

QGt(a, b) == QLt(b, a)

QGe(a, b) == QLe(b, a)

\* np.amax / np.amin of two numbers: NaN propagates
QMax(a, b) == IF IsNaN(a) \/ IsNaN(b) THEN NaN ELSE IF QLt(a, b) THEN b ELSE a

QMin(a, b) == IF IsNaN(a) \/ IsNaN(b) THEN NaN ELSE IF QLt(b, a) THEN b ELSE a

RECURSIVE SeqSum(_)
SeqSum(s) == IF s = <<>> THEN Zero ELSE QAdd(Head(s), SeqSum(Tail(s)))

RECURSIVE SeqMax(_)
SeqMax(s) == IF Len(s) = 1 THEN s[1] ELSE QMax(s[1], SeqMax(Tail(s)))

RECURSIVE SeqMin(_)
SeqMin(s) == IF Len(s) = 1 THEN s[1] ELSE QMin(s[1], SeqMin(Tail(s)))

\* np.sort of one row: ascending, NaN last (insertion sort)
RECURSIVE Insert(_, _)
Insert(x, s) ==
    IF s = <<>> THEN <<x>>
    ELSE IF IsNaN(Head(s)) \/ QLe(x, Head(s)) THEN <<x>> \o s
    ELSE <<Head(s)>> \o Insert(x, Tail(s))

RECURSIVE SortAsc(_)
SortAsc(s) == IF Len(s) = 0 THEN <<>> ELSE Insert(Head(s), SortAsc(Tail(s)))

\* np.around of a non-negative rational: round half to even
RoundHalfEven(a) ==
    LET fl == a[1] \div a[2]
        rem == a[1] % a[2]
    IN  IF 2 * rem < a[2] THEN fl
        ELSE IF 2 * rem > a[2] THEN fl + 1
        ELSE IF fl % 2 = 0 THEN fl ELSE fl + 1

RECURSIVE ISqrtIn(_, _, _)
ISqrtIn(x, lo, hi) ==
    IF lo >= hi THEN lo
    ELSE LET mid == (lo + hi + 1) \div 2
         IN  IF mid * mid <= x THEN ISqrtIn(x, mid, hi) ELSE ISqrtIn(x, lo, mid - 1)

\* floor of the square root of a natural number below 2^30
ISqrt(x) == ISqrtIn(x, 0, 32767)

\* np.sqrt: exact where the root is rational, otherwise cut to three decimals
QSqrt(a) ==
    IF IsNaN(a) \/ a = NegInf THEN NaN
    ELSE IF a = PosInf THEN PosInf
    ELSE IF a[1] < 0 THEN NaN
    ELSE LET r == ISqrt(a[1] * a[2])
         IN  IF r * r = a[1] * a[2] THEN Norm(r, a[2])
             ELSE Norm(ISqrt(a[1] * a[2] * 1000000), a[2] * 1000)

-----------------------------------------------------------------------------
(* Evaluation order.  Python evaluates an expression once and binds the    *)
(* result to a name; With(e, G) is that: G applied to the value of e.      *)

With(e, G(_)) == CHOOSE r \in {G(v) : v \in {e}} : TRUE

\* the sequence s with every element computed
Force(s) == s \o <<>>

-----------------------------------------------------------------------------
(* Array values *)

Arr(shape, data) == [shape |-> shape, data |-> data]

Scalar(x) == Arr(<<>>, <<x>>)

Vec(s) == Arr(<<Len(s)>>, s)

NDim(a) == Len(a.shape)

NRows(a) == a.shape[1]

NCols(a) == a.shape[2]

At(a, i, j) == a.data[(i - 1) * NCols(a) + j]

Row(a, i) == [j \in 1..NCols(a) |-> At(a, i, j)]

Col(a, j) == [i \in 1..NRows(a) |-> At(a, i, j)]

\* the (m, n) array whose entry [i][j] is F(i, j)
Mat(m, n, F(_, _)) ==
    Arr(<<m, n>>,
        Force([k \in 1..(m * n) |-> F(((k - 1) \div n) + 1, ((k - 1) % n) + 1)]))

\* the (m, ) array whose entry [i] is F(i)
Vec1(m, F(_)) == Arr(<<m>>, Force([i \in 1..m |-> F(i)]))

MapArr(a, F(_)) ==
    With(a, LAMBDA v : Arr(v.shape, Force([k \in DOMAIN v.data |-> F(v.data[k])])))

NegArr(a) == MapArr(a, QNeg)

\* a shape seen as two-dimensional for broadcasting: () -> (1, 1), (n, ) -> (1, n)
Shape2(s) ==
    IF Len(s) = 0 THEN <<1, 1>> ELSE IF Len(s) = 1 THEN <<1, s[1]>> ELSE s

DimOk(x, y) == x = y \/ x = 1 \/ y = 1

\* numpy's broadcasting rule for operands of at most two dimensions
Compatible(sa, sb) ==
    /\ DimOk(Shape2(sa)[1], Shape2(sb)[1])
    /\ DimOk(Shape2(sa)[2], Shape2(sb)[2])

BDim(x, y) == IF x = 1 THEN y ELSE x

BAt(a, i, j) ==
    LET s == Shape2(a.shape)
        ii == IF s[1] = 1 THEN 1 ELSE i
        jj == IF s[2] = 1 THEN 1 ELSE j
    IN  a.data[(ii - 1) * s[2] + jj]

\* an elementwise binary ufunc on a two-dimensional a and a broadcastable b
BinOp(a, b, F(_, _)) ==
    With(<<a, b>>, LAMBDA ab :
        LET sa == Shape2(ab[1].shape)
            sb == Shape2(ab[2].shape)
            G(i, j) == F(BAt(ab[1], i, j), BAt(ab[2], i, j))
        IN  Mat(BDim(sa[1], sb[1]), BDim(sa[2], sb[2]), G))

\* np.median of one row
Median(s) ==
    With(Force(SortAsc(s)), LAMBDA t :
        LET n == Len(t)
        IN  IF \E k \in 1..n : IsNaN(t[k]) THEN NaN
            ELSE IF n % 2 = 1 THEN t[(n + 1) \div 2]
            ELSE QDiv(QAdd(t[n \div 2], t[(n \div 2) + 1]), Two))

-----------------------------------------------------------------------------
(* The heap of array buffers *)

NoRef == [buf |-> 0, shape |-> <<>>, stride |-> 0, list |-> FALSE]

\* the outcome of a call: the heap after it, the object returned, the exception raised
Ok(h, r) == [h |-> h, r |-> r, err |-> "none"]

Raise(h, e) == [h |-> h, r |-> NoRef, err |-> e]

Failed(res) == res.err # "none"

\* the array an object denotes
Value(h, r) ==
    IF Len(r.shape) = 2
    THEN LET G(i, j) == h[r.buf][(i - 1) * r.stride + j]
         IN  Mat(r.shape[1], r.shape[2], G)
    ELSE Arr(r.shape, SubSeq(h[r.buf], 1, r.shape[1]))

\* a freshly allocated array holding a
Alloc(h, a) ==
    With(a, LAMBDA v :
        Ok(Append(h, v.data),
           [buf |-> Len(h) + 1, shape |-> v.shape,
            stride |-> v.shape[Len(v.shape)], list |-> FALSE]))

\* whether position k of r's buffer is one the view r covers
Covers(r, k) ==
    IF Len(r.shape) = 2
    THEN /\ ((k - 1) % r.stride) + 1 <= r.shape[2]
         /\ ((k - 1) \div r.stride) + 1 <= r.shape[1]
    ELSE k <= r.shape[1]

\* an in-place elementwise write through r: every covered element x becomes F(x)
WriteInPlace(h, r, F(_)) ==
    [h EXCEPT ![r.buf] =
        Force([k \in DOMAIN @ |-> IF Covers(r, k) THEN F(@[k]) ELSE @[k]])]

\* an in-place store of the array a, of r's shape, through r
StoreInPlace(h, r, a) ==
    With(a, LAMBDA v :
        LET n == r.shape[Len(r.shape)]
            Pos(k) == (((k - 1) \div r.stride) * n) + ((k - 1) % r.stride) + 1
        IN  [h EXCEPT ![r.buf] =
                Force([k \in DOMAIN @ |-> IF Covers(r, k) THEN v.data[Pos(k)] ELSE @[k]])])

Contiguous(r) == r.stride = r.shape[Len(r.shape)]

-----------------------------------------------------------------------------
(* t1: performance value transformations.  Each takes the heap and the     *)
(* object f it is given and yields Ok(heap', result) or Raise(heap', e).   *)

\* np.asarray of a Python list copies; an ndarray is used as it is; an
\* array that is not two-dimensional is viewed (same buffer) as one row
_prepare_f(h, f) ==
    With(IF f.list THEN Alloc(h, Value(h, f)) ELSE Ok(h, f), LAMBDA a :
        LET size == IF Len(a.r.shape) = 0 THEN 1 ELSE a.r.shape[1]
        IN  IF Len(a.r.shape) # 2
            THEN Ok(a.h, [a.r EXCEPT !.shape = <<1, size>>, !.stride = size])
            ELSE a)

\* the mutant of the sign convention: the values are kept when minimising
identity_keep(h, f, maximise) == _prepare_f(h, f)

identity(h, f, maximise) ==
    With(_prepare_f(h, f), LAMBDA p :
        IF maximise THEN p ELSE Alloc(p.h, NegArr(Value(p.h, p.r))))

\* the mutant of the regret: measured from each alternative's best scenario
\* (np.amax(_f, axis=1, keepdims=True))
regret_from_row_best(h, f, maximise) ==
    With(_prepare_f(h, f), LAMBDA p :
    With(identity(p.h, p.r, maximise), LAMBDA t :
    With(Value(t.h, t.r), LAMBDA _f :
        LET best == Mat(NRows(_f), 1, LAMBDA i, j : SeqMax(Row(_f, i)))
        IN  Alloc(t.h, BinOp(_f, best, QSub)))))

regret_from_best_da(h, f, maximise) ==
    With(_prepare_f(h, f), LAMBDA p :
    With(identity(p.h, p.r, maximise), LAMBDA t :
    With(Value(t.h, t.r), LAMBDA _f :
        LET best_decision_alternatives ==
                Vec1(NCols(_f), LAMBDA j : SeqMax(Col(_f, j)))
        IN  Alloc(t.h, BinOp(_f, best_decision_alternatives, QSub)))))

\* a Python scalar is repeated once per scenario; an ndarray is used as given
AsValues(values, n) ==
    IF NDim(values) > 0 THEN values ELSE Vec([j \in 1..n |-> values.data[1]])

\* the mutant for the frame property: np.subtract(_f, v, out=_f)
regret_from_values_inplace(h, f, values, maximise) ==
    With(_prepare_f(h, f), LAMBDA p :
    With(Value(p.h, p.r), LAMBDA _f :
    With(AsValues(values, NCols(_f)), LAMBDA v :
        IF ~Compatible(_f.shape, v.shape) THEN Raise(p.h, "ValueError")
        ELSE With(BinOp(_f, v, QSub), LAMBDA d :
                 IF d.shape # _f.shape THEN Raise(p.h, "ValueError")
                 ELSE identity(StoreInPlace(p.h, p.r, d), p.r, maximise)))))

regret_from_values(h, f, values, maximise) ==
    With(_prepare_f(h, f), LAMBDA p :
    With(Value(p.h, p.r), LAMBDA _f :
    With(AsValues(values, NCols(_f)), LAMBDA v :
        IF ~Compatible(_f.shape, v.shape) THEN Raise(p.h, "ValueError")
        ELSE With(Alloc(p.h, BinOp(_f, v, QSub)), LAMBDA regret :
                 identity(regret.h, regret.r, maximise)))))

\* the mutant of the zeroing: regret[regret < 0.] = 0.
ZeroIfNegative(x) == IF QLt(x, Zero) THEN Zero ELSE x

ZeroIfPositive(x) == IF QGt(x, Zero) THEN Zero ELSE x

satisficing_regret(h, f, threshold, maximise) ==
    With(_prepare_f(h, f), LAMBDA p :
    With(regret_from_values(p.h, p.r, threshold, maximise), LAMBDA regret :
        IF Failed(regret) THEN regret
        \* regret[regret > 0.] = 0. writes into the array regret_from_values returned
        ELSE Ok(WriteInPlace(regret.h, regret.r, ZeroIfPositive), regret.r)))

regret_from_median(h, f, maximise) ==
    With(_prepare_f(h, f), LAMBDA p :
    With(Value(p.h, p.r), LAMBDA _f :
    With(Mat(NRows(_f), 1, LAMBDA i, j : Median(Row(_f, i))), LAMBDA median_f :
    With(Alloc(p.h, BinOp(_f, median_f, QSub)), LAMBDA regret :
        identity(regret.h, regret.r, maximise)))))

\* the mutant of the threshold's sign: c = threshold also when minimising
satisfice_same_threshold(h, f, maximise, threshold, accept_equal) ==
    With(_prepare_f(h, f), LAMBDA p :
    With(identity(p.h, p.r, maximise), LAMBDA t :
    With(Value(t.h, t.r), LAMBDA _f :
        LET Ind(x, y) ==
                IF (accept_equal /\ QGe(x, y)) \/ (~accept_equal /\ QGt(x, y))
                THEN One ELSE Zero
        IN  IF ~Compatible(_f.shape, threshold.shape) THEN Raise(t.h, "ValueError")
            ELSE Alloc(t.h, BinOp(_f, threshold, Ind)))))

satisfice(h, f, maximise, threshold, accept_equal) ==
    With(_prepare_f(h, f), LAMBDA p :
    With(identity(p.h, p.r, maximise), LAMBDA t :
    With(Value(t.h, t.r), LAMBDA _f :
    With(IF maximise THEN threshold ELSE NegArr(threshold), LAMBDA c :
        LET Ind(x, y) ==
                IF (accept_equal /\ QGe(x, y)) \/ (~accept_equal /\ QGt(x, y))
                THEN One ELSE Zero
        IN  IF ~Compatible(_f.shape, c.shape) THEN Raise(t.h, "ValueError")
            ELSE Alloc(t.h, BinOp(_f, c, Ind))))))

-----------------------------------------------------------------------------
(* t2: scenario subset selection.  These do not call _prepare_f: an axis-1 *)
(* reduction of an array that is not two-dimensional raises.               *)

all_scenarios(h, f) == Ok(h, f)

worst_case(h, f) ==
    IF Len(f.shape) # 2 THEN Raise(h, "AxisError")
    ELSE With(Value(h, f), LAMBDA a :
             Alloc(h, Mat(NRows(a), 1, LAMBDA i, j : SeqMin(Row(a, i)))))

\* the mutant of the best case: the first scenario, f[:, :1]
best_case_first(h, f) ==
    IF Len(f.shape) # 2 THEN Raise(h, "AxisError")
    ELSE With(Value(h, f), LAMBDA a : Alloc(h, Mat(NRows(a), 1, LAMBDA i, j : At(a, i, 1))))

best_case(h, f) ==
    IF Len(f.shape) # 2 THEN Raise(h, "AxisError")
    ELSE With(Value(h, f), LAMBDA a :
             Alloc(h, Mat(NRows(a), 1, LAMBDA i, j : SeqMax(Row(a, i)))))

\* the mutant of the concatenation: axis=0, the best cases below the worst
worst_and_best_stacked(h, f) ==
    With(worst_case(h, f), LAMBDA worst_f :
        IF Failed(worst_f) THEN worst_f
        ELSE With(best_case(worst_f.h, f), LAMBDA best_f :
             With(<<Value(best_f.h, worst_f.r), Value(best_f.h, best_f.r)>>, LAMBDA wb :
                 Alloc(best_f.h,
                       Mat(2 * NRows(wb[1]), 1,
                           LAMBDA i, j : IF i <= NRows(wb[1]) THEN At(wb[1], i, 1)
                                         ELSE At(wb[2], i - NRows(wb[1]), 1))))))

worst_and_best_cases(h, f) ==
    With(worst_case(h, f), LAMBDA worst_f :
        IF Failed(worst_f) THEN worst_f
        ELSE With(best_case(worst_f.h, f), LAMBDA best_f :
             With(<<Value(best_f.h, worst_f.r), Value(best_f.h, best_f.r)>>, LAMBDA wb :
                 Alloc(best_f.h,
                       Mat(NRows(wb[1]), 2,
                           LAMBDA i, j : IF j = 1 THEN At(wb[1], i, 1) ELSE At(wb[2], i, 1))))))

\* the mutant of the half: int(n / 2.)
HalfCountFloor(n) == n \div 2

\* int(n / 2. + 0.51)
HalfCount(n) == (n * 50 + 51) \div 100

SortRows(a) ==
    With(a, LAMBDA v :
    With([i \in 1..NRows(v) |-> Force(SortAsc(Row(v, i)))], LAMBDA rows :
        Mat(NRows(v), NCols(v), LAMBDA i, j : rows[i][j])))

worst_half(h, f) ==
    IF Len(f.shape) # 2 THEN Raise(h, "IndexError")
    ELSE With(Alloc(h, SortRows(Value(h, f))), LAMBDA sorted_f :
             LET n == sorted_f.r.shape[2]
                 _n == HalfCount(n)
             \* sorted_f[:, :_n] is a view of the sorted copy
             IN  Ok(sorted_f.h, [sorted_f.r EXCEPT !.shape = <<sorted_f.r.shape[1], _n>>]))

\* the mutant of the quantile: interpolation='linear', numpy's default
LinearRank(row, p) ==
    IF \E k \in 1..Len(row) : IsNaN(row[k]) THEN NaN
    ELSE With(Force(SortAsc(row)), LAMBDA t :
         With(QMul(p, Q(Len(row) - 1)), LAMBDA x :
             LET lo == x[1] \div x[2]
                 hi == IF lo + 1 < Len(row) THEN lo + 1 ELSE lo
                 frac == QSub(x, Q(lo))
             IN  QAdd(t[lo + 1], QMul(frac, QSub(t[hi + 1], t[lo + 1])))))

\* one row's quantile by interpolation='nearest': the element of the sorted
\* row at index around(p * (n - 1))
NearestRank(row, p) ==
    IF \E k \in 1..Len(row) : IsNaN(row[k]) THEN NaN
    ELSE SortAsc(row)[RoundHalfEven(QMul(p, Q(Len(row) - 1))) + 1]

select_percentiles(h, f, percentiles) ==
    IF Len(f.shape) # 2 THEN Raise(h, "AxisError")
    ELSE IF \E k \in 1..Len(percentiles.data) :
                ~(QLe(Zero, percentiles.data[k]) /\ QLe(percentiles.data[k], One))
    THEN Raise(h, "ValueError")
    ELSE With(Value(h, f), LAMBDA a :
             LET G(i, c) == NearestRank(Row(a, i), percentiles.data[c])
             IN  Alloc(h, Mat(NRows(a), Len(percentiles.data), G)))

-----------------------------------------------------------------------------
(* t3: aggregation to robustness *)

f_identity(h, f) ==
    LET size == IF Len(f.shape) = 2 THEN f.shape[1] * f.shape[2] ELSE f.shape[1]
    IN  \* np.reshape(f, (-1, )) is a view of a contiguous array, a copy otherwise
        IF Contiguous(f)
        THEN Ok(h, [f EXCEPT !.shape = <<size>>, !.stride = size])
        ELSE Alloc(h, Arr(<<size>>, Value(h, f).data))

RowMean(row) == QDiv(SeqSum(row), Q(Len(row)))

\* the mutant of the mean: np.sum(f, axis=1), not divided by n
f_mean_undivided(h, f) ==
    IF Len(f.shape) # 2 THEN Raise(h, "AxisError")
    ELSE With(Value(h, f), LAMBDA a :
             Alloc(h, Vec1(NRows(a), LAMBDA i : SeqSum(Row(a, i)))))

f_mean(h, f) ==
    IF Len(f.shape) # 2 THEN Raise(h, "AxisError")
    ELSE With(Value(h, f), LAMBDA a :
             Alloc(h, Vec1(NRows(a), LAMBDA i : RowMean(Row(a, i)))))

f_range(h, f) ==
    IF Len(f.shape) # 2 THEN Raise(h, "AxisError")
    ELSE With(Value(h, f), LAMBDA a :
             Alloc(h, Vec1(NRows(a),
                           LAMBDA i : QSub(SeqMax(Row(a, i)), SeqMin(Row(a, i))))))

f_sum(h, f) ==
    IF Len(f.shape) # 2 THEN Raise(h, "AxisError")
    ELSE With(Value(h, f), LAMBDA a :
             Alloc(h, Vec1(NRows(a), LAMBDA i : QDiv(SeqSum(Row(a, i)), Q(f.shape[2])))))

\* np.matmul(f, weights) with a weight vector
f_w_sum(h, f, weights) ==
    IF Len(f.shape) # 2 \/ NDim(weights) # 1 \/ weights.shape[1] # f.shape[2]
    THEN Raise(h, "ValueError")
    ELSE With(Value(h, f), LAMBDA a :
             LET Dot(i) ==
                     SeqSum([j \in 1..NCols(a) |-> QMul(At(a, i, j), weights.data[j])])
             IN  Alloc(h, Vec1(NRows(a), Dot)))

\* np.var(row, ddof=1): 0/0 = NaN for a single column
RowVar(row) ==
    With(RowMean(row), LAMBDA mu :
        LET sq == [j \in 1..Len(row) |-> QMul(QSub(row[j], mu), QSub(row[j], mu))]
        IN  QDiv(SeqSum(sq), Q(Len(row) - 1)))

f_variance(h, f) ==
    IF Len(f.shape) # 2 THEN Raise(h, "AxisError")
    ELSE With(Value(h, f), LAMBDA a :
             Alloc(h, Vec1(NRows(a), LAMBDA i : RowVar(Row(a, i)))))

f_mean_variance(h, f) ==
    With(f_mean(h, f), LAMBDA mean_f :
        IF Failed(mean_f) THEN mean_f
        ELSE With(<<Value(h, f), Value(mean_f.h, mean_f.r)>>, LAMBDA am :
                 LET R(i) == QDiv(QAdd(am[2].data[i], One),
                                  QAdd(QSqrt(RowVar(Row(am[1], i))), One))
                 IN  Alloc(mean_f.h, Vec1(NRows(am[1]), R))))

\* the mutant of the skew: reverse is ignored
f_skew_unreversed(h, f, reverse) ==
    IF Len(f.shape) # 2 \/ f.shape[Len(f.shape)] < 3 THEN Raise(h, "IndexError")
    ELSE With(Value(h, f), LAMBDA a :
             LET mid(i) == QDiv(QAdd(At(a, i, 3), At(a, i, 1)), Two)
                 normaliser(i) == QDiv(QSub(At(a, i, 3), At(a, i, 1)), Two)
             IN  Alloc(h, Vec1(NRows(a),
                               LAMBDA i : QDiv(QSub(At(a, i, 2), mid(i)), normaliser(i)))))

f_skew(h, f, reverse) ==
    IF Len(f.shape) # 2 \/ f.shape[Len(f.shape)] < 3 THEN Raise(h, "IndexError")
    ELSE With(Value(h, f), LAMBDA a :
             LET p10(i) == At(a, i, 1)
                 p50(i) == At(a, i, 2)
                 p90(i) == At(a, i, 3)
                 mid(i) == QDiv(QAdd(p90(i), p10(i)), Two)
                 R(i) == IF ~reverse THEN QSub(p50(i), mid(i)) ELSE QSub(mid(i), p50(i))
                 normaliser(i) == QDiv(QSub(p90(i), p10(i)), Two)
             IN  Alloc(h, Vec1(NRows(a), LAMBDA i : QDiv(R(i), normaliser(i)))))

\* the mutant of the kurtosis: the inner spread over the outer spread
f_kurtosis_inverted(h, f) ==
    IF Len(f.shape) # 2 \/ f.shape[Len(f.shape)] < 4 THEN Raise(h, "IndexError")
    ELSE With(Value(h, f), LAMBDA a :
             LET R(i) == QDiv(QSub(At(a, i, 3), At(a, i, 2)), QSub(At(a, i, 4), At(a, i, 1)))
             IN  Alloc(h, Vec1(NRows(a), R)))

f_kurtosis(h, f) ==
    IF Len(f.shape) # 2 \/ f.shape[Len(f.shape)] < 4 THEN Raise(h, "IndexError")
    ELSE With(Value(h, f), LAMBDA a :
             LET R(i) == QDiv(QSub(At(a, i, 4), At(a, i, 1)), QSub(At(a, i, 3), At(a, i, 2)))
             IN  Alloc(h, Vec1(NRows(a), R)))

-----------------------------------------------------------------------------
(* Keyword-argument bags and Python's call rule.  A bag is a function from *)
(* the keys present to their values; None is <<>> and a given bag b is     *)
(* <<b>>.                                                                  *)

EmptyBag == <<>>

None == <<>>

Some(b) == <<b>>

Get(kw, key, default) == IF key \in DOMAIN kw THEN kw[key] ELSE default

T1Funcs ==
    {"identity", "regret_from_best_da", "satisficing_regret",
     "regret_from_values", "regret_from_median", "satisfice"}

T2Funcs ==
    {"all_scenarios", "worst_case", "best_case", "worst_and_best_cases",
     "worst_half", "select_percentiles"}

T3Funcs ==
    {"f_identity", "f_mean", "f_range", "f_sum", "f_w_sum", "f_variance",
     "f_mean_variance", "f_skew", "f_kurtosis"}

\* the keyword parameters of each function (besides f) and those without a default
Params(fn) ==
    CASE fn \in {"identity", "regret_from_best_da", "regret_from_median"} -> {"maximise"}
      [] fn = "satisficing_regret" -> {"threshold", "maximise"}
      [] fn = "regret_from_values" -> {"values", "maximise"}
      [] fn = "satisfice" -> {"maximise", "threshold", "accept_equal"}
      [] fn = "select_percentiles" -> {"percentiles"}
      [] fn = "f_w_sum" -> {"weights"}
      [] fn = "f_skew" -> {"reverse"}
      [] OTHER -> {}

Required(fn) ==
    CASE fn = "satisficing_regret" -> {"threshold"}
      [] fn = "regret_from_values" -> {"values"}
      [] fn = "select_percentiles" -> {"percentiles"}
      [] fn = "f_w_sum" -> {"weights"}
      [] OTHER -> {}

\* fn(f, **kw) binds: every key names a parameter, every parameter without a
\* default is given
Binds(fn, kw) == DOMAIN kw \subseteq Params(fn) /\ Required(fn) \subseteq DOMAIN kw

\* self.t1_func(f, maximise=maximise, **t1_kwargs)
CallT1(h, fn, f, maximise, kw) ==
    IF "maximise" \in DOMAIN kw \/ ~Binds(fn, kw) THEN Raise(h, "TypeError")
    ELSE CASE fn = "identity" -> identity(h, f, maximise)
           [] fn = "regret_from_best_da" -> regret_from_best_da(h, f, maximise)
           [] fn = "satisficing_regret" -> satisficing_regret(h, f, kw["threshold"], maximise)
           [] fn = "regret_from_values" -> regret_from_values(h, f, kw["values"], maximise)
           [] fn = "regret_from_median" -> regret_from_median(h, f, maximise)
           [] fn = "satisfice" ->
                satisfice(h, f, maximise, Get(kw, "threshold", Scalar(Zero)),
                          Get(kw, "accept_equal", TRUE))

\* self.t2_func(transformed_f, **t2_kwargs)
CallT2(h, fn, f, kw) ==
    IF ~Binds(fn, kw) THEN Raise(h, "TypeError")
    ELSE CASE fn = "all_scenarios" -> all_scenarios(h, f)
           [] fn = "worst_case" -> worst_case(h, f)
           [] fn = "best_case" -> best_case(h, f)
           [] fn = "worst_and_best_cases" -> worst_and_best_cases(h, f)
           [] fn = "worst_half" -> worst_half(h, f)
           [] fn = "select_percentiles" -> select_percentiles(h, f, kw["percentiles"])

\* self.t3_func(selected_f, **t3_kwargs)
CallT3(h, fn, f, kw) ==
    IF ~Binds(fn, kw) THEN Raise(h, "TypeError")
    ELSE CASE fn = "f_identity" -> f_identity(h, f)
           [] fn = "f_mean" -> f_mean(h, f)
           [] fn = "f_range" -> f_range(h, f)
           [] fn = "f_sum" -> f_sum(h, f)
           [] fn = "f_w_sum" -> f_w_sum(h, f, kw["weights"])
           [] fn = "f_variance" -> f_variance(h, f)
           [] fn = "f_mean_variance" -> f_mean_variance(h, f)
           [] fn = "f_skew" -> f_skew(h, f, Get(kw, "reverse", FALSE))
           [] fn = "f_kurtosis" -> f_kurtosis(h, f)

-----------------------------------------------------------------------------
(* The metric composer *)

\* if t_kwargs is None: t_kwargs = {}
OrEmpty(opt) == IF opt = None THEN EmptyBag ELSE opt[1]

\* the mutant of the unwrap: never unwrap
UnwrapNever(h, R) == Value(h, R)

\* if R.shape[0] == 1: R = R[0]
Unwrap(h, R) ==
    With(Value(h, R), LAMBDA v : IF R.shape[1] = 1 THEN Scalar(v.data[1]) ELSE v)

\* one entry of the record of stage invocations: the function, the object and
\* the array it was given, the maximise flag if one was passed, the bag
Invocation(stage, fn, h, f, maximise, kw) ==
    [stage |-> stage, fn |-> fn, arg |-> f, argval |-> Value(h, f),
     maximise |-> maximise, kwargs |-> kw]

\* custom_R_metric(t1_func, t2_func, t3_func)(f, maximise, t1_kwargs, t2_kwargs,
\* t3_kwargs) as one call: the heap after it, the object R, the value returned,
\* the exception, and the stage invocations in order
custom_R_metric(h, t1_func, t2_func, t3_func, f, maximise, t1_kwargs, t2_kwargs, t3_kwargs) ==
    LET k1 == OrEmpty(t1_kwargs)
        k2 == OrEmpty(t2_kwargs)
        k3 == OrEmpty(t3_kwargs)
        i1 == Invocation(1, t1_func, h, f, Some(maximise), k1)
        Out(res, log, ret) ==
            [h |-> res.h, r |-> res.r, err |-> res.err, log |-> log, ret |-> ret]
    IN  With(CallT1(h, t1_func, f, maximise, k1), LAMBDA transformed_f :
        IF Failed(transformed_f) THEN Out(transformed_f, <<i1>>, Scalar(NaN))
        ELSE
        With(CallT2(transformed_f.h, t2_func, transformed_f.r, k2), LAMBDA selected_f :
        LET i2 == Invocation(2, t2_func, transformed_f.h, transformed_f.r, None, k2)
        IN  IF Failed(selected_f) THEN Out(selected_f, <<i1, i2>>, Scalar(NaN))
        ELSE
        With(CallT3(selected_f.h, t3_func, selected_f.r, k3), LAMBDA R :
        LET i3 == Invocation(3, t3_func, selected_f.h, selected_f.r, None, k3)
        IN  IF Failed(R) THEN Out(R, <<i1, i2, i3>>, Scalar(NaN))
            ELSE Out(R, <<i1, i2, i3>>, Unwrap(R.h, R.r)))))

-----------------------------------------------------------------------------
(* The named metrics: each chains its three stages directly and returns    *)
(* the t3 output as it is.                                                 *)

\* res, then F on its result unless it raised
Then(res, F(_, _)) == With(res, LAMBDA v : IF Failed(v) THEN v ELSE F(v.h, v.r))

\* the mutant of maximin: maximise is not passed on
maximin_unsigned(h, f, maximise) ==
    Then(Then(identity(h, f, TRUE), worst_case), f_sum)

maximin(h, f, maximise) ==
    Then(Then(identity(h, f, maximise), worst_case), f_sum)

maximax(h, f, maximise) ==
    Then(Then(identity(h, f, maximise), best_case), f_sum)

\* the mutant of the weights: alpha on the best case
hurwicz_alpha_on_best(h, f, maximise, alpha) ==
    LET weights == Vec(<<QSub(One, alpha), alpha>>)
    IN  Then(Then(identity(h, f, maximise), worst_and_best_cases),
             LAMBDA hh, ff : f_w_sum(hh, ff, weights))

hurwicz(h, f, maximise, alpha) ==
    LET weights == Vec(<<alpha, QSub(One, alpha)>>)
    IN  Then(Then(identity(h, f, maximise), worst_and_best_cases),
             LAMBDA hh, ff : f_w_sum(hh, ff, weights))

laplace(h, f, maximise) ==
    Then(Then(identity(h, f, maximise), all_scenarios), f_mean)

minimax_regret(h, f, maximise) ==
    Then(Then(regret_from_best_da(h, f, maximise), worst_case), f_sum)

\* the mutant of the percentile: counted from the best regret downwards
percentile_regret_from_best(h, f, maximise, percentile) ==
    Then(Then(regret_from_best_da(h, f, maximise),
              LAMBDA hh, ff : select_percentiles(hh, ff, Vec(<<QSub(One, percentile)>>))),
         f_sum)

percentile_regret(h, f, maximise, percentile) ==
    Then(Then(regret_from_best_da(h, f, maximise),
              LAMBDA hh, ff : select_percentiles(hh, ff, Vec(<<percentile>>))),
         f_sum)

mean_variance(h, f, maximise) ==
    Then(Then(identity(h, f, maximise), all_scenarios), f_mean_variance)

\* the mutant of undesirable_deviations: maximise is not passed on
undesirable_deviations_unsigned(h, f, maximise) ==
    Then(Then(regret_from_median(h, f, TRUE), worst_half), f_sum)

undesirable_deviations(h, f, maximise) ==
    Then(Then(regret_from_median(h, f, maximise), worst_half), f_sum)

percentile_skew(h, f, maximise) ==
    LET percentiles == Vec(<<Norm(1, 10), Norm(1, 2), Norm(9, 10)>>)
    IN  Then(Then(identity(h, f, maximise),
                  LAMBDA hh, ff : select_percentiles(hh, ff, percentiles)),
             LAMBDA hh, ff : f_skew(hh, ff, FALSE))

percentile_kurtosis(h, f, maximise) ==
    LET percentiles == Vec(<<Norm(1, 10), Norm(1, 4), Norm(3, 4), Norm(9, 10)>>)
    IN  Then(Then(identity(h, f, maximise),
                  LAMBDA hh, ff : select_percentiles(hh, ff, percentiles)),
             f_kurtosis)

\* the mutant of starrs_domain: accept_equal is not passed on
starrs_domain_default(h, f, maximise, threshold, accept_equal) ==
    Then(Then(satisfice(h, f, maximise, threshold, TRUE), all_scenarios), f_mean)

starrs_domain(h, f, maximise, threshold, accept_equal) ==
    Then(Then(satisfice(h, f, maximise, threshold, accept_equal), all_scenarios), f_mean)

NamedMetrics ==
    {"maximin", "maximax", "hurwicz", "laplace", "minimax_regret",
     "percentile_regret", "mean_variance", "undesirable_deviations",
     "percentile_skew", "percentile_kurtosis", "starrs_domain"}

NamedParams(name) ==
    CASE name = "hurwicz" -> {"maximise", "alpha"}
      [] name = "percentile_regret" -> {"maximise", "percentile"}
      [] name = "starrs_domain" -> {"maximise", "threshold", "accept_equal"}
      [] OTHER -> {"maximise"}

\* name(f, **kw) for a named metric
CallNamed(h, name, f, kw) ==
    IF ~(DOMAIN kw \subseteq NamedParams(name)) THEN Raise(h, "TypeError")
    ELSE LET maximise == Get(kw, "maximise", TRUE)
         IN  CASE name = "maximin" -> maximin(h, f, maximise)
               [] name = "maximax" -> maximax(h, f, maximise)
               [] name = "hurwicz" -> hurwicz(h, f, maximise, Get(kw, "alpha", Norm(1, 2)))
               [] name = "laplace" -> laplace(h, f, maximise)
               [] name = "minimax_regret" -> minimax_regret(h, f, maximise)
               [] name = "percentile_regret" ->
                    percentile_regret(h, f, maximise, Get(kw, "percentile", Norm(1, 10)))
               [] name = "mean_variance" -> mean_variance(h, f, maximise)
               [] name = "undesirable_deviations" -> undesirable_deviations(h, f, maximise)
               [] name = "percentile_skew" -> percentile_skew(h, f, maximise)
               [] name = "percentile_kurtosis" -> percentile_kurtosis(h, f, maximise)
               [] name = "starrs_domain" ->
                    starrs_domain(h, f, maximise, Get(kw, "threshold", Scalar(Zero)),
                                  Get(kw, "accept_equal", TRUE))

-----------------------------------------------------------------------------
(* The comparison engine *)

\* the mutant of the omission: nan_policy='propagate', a NaN leaves nothing
\* to correlate
KeptPropagate(x, y) ==
    IF \E a \in 1..Len(x) : IsNaN(x[a]) \/ IsNaN(y[a]) THEN {} ELSE 1..Len(x)

\* the rows of x and y that nan_policy='omit' keeps: when either holds a NaN,
\* the invalid (NaN or infinite) entries are masked pairwise
Kept(x, y) ==
    IF \E a \in 1..Len(x) : IsNaN(x[a]) \/ IsNaN(y[a])
    THEN {a \in 1..Len(x) : IsFinite(x[a]) /\ IsFinite(y[a])}
    ELSE 1..Len(x)

QSign(a, b) == IF QLt(a, b) THEN -1 ELSE IF QLt(b, a) THEN 1 ELSE 0

TauNaN == <<0, 0, 0>>

TauZero == <<0, 1, 1>>

\* stats.kendalltau(x, y, nan_policy='omit'): Kendall's tau-b as the triple
\* <<con - dis, tot - xtie, tot - ytie>>, which denotes
\* (con - dis) / sqrt((tot - xtie) * (tot - ytie)); NaN when a factor is 0
kendalltau(x, y) ==
    LET keep == Kept(x, y)
        pairs == {p \in keep \X keep : p[1] < p[2]}
        con == Cardinality({p \in pairs :
                   QSign(x[p[1]], x[p[2]]) * QSign(y[p[1]], y[p[2]]) = 1})
        dis == Cardinality({p \in pairs :
                   QSign(x[p[1]], x[p[2]]) * QSign(y[p[1]], y[p[2]]) = -1})
        xtie == Cardinality({p \in pairs : QSign(x[p[1]], x[p[2]]) = 0})
        ytie == Cardinality({p \in pairs : QSign(y[p[1]], y[p[2]]) = 0})
        tot == Cardinality(pairs)
    IN  IF tot = xtie \/ tot = ytie THEN TauNaN
        ELSE <<con - dis, tot - xtie, tot - ytie>>

\* the mutant of the relative difference: the denominator (|a| + |b|) / 2
RelDeltaAbsSum(x, y) ==
    LET d == [a \in 1..Len(x) |->
                 QDiv(QAbs(QSub(x[a], y[a])), QDiv(QAdd(QAbs(x[a]), QAbs(y[a])), Two))]
    IN  QMul(RowMean(d), Q(100))

\* np.divide(np.abs(a - b), np.abs(a + b) / 2.), np.average(...) * 100.0
RelDelta(x, y) ==
    LET d == [a \in 1..Len(x) |->
                 QDiv(QAbs(QSub(x[a], y[a])), QDiv(QAbs(QAdd(x[a], y[a])), Two))]
    IN  QMul(RowMean(d), Q(100))

-----------------------------------------------------------------------------
(* State *)

VARIABLES
    op,       \* the operation the caller runs
    pc,       \* where that operation stands
    err,      \* the exception it raised, "none" if none
    heap,     \* the array buffers
    call,     \* the arguments of the call in progress
    cur,      \* the array object handed from one stage to the next
    log,      \* the stage invocations so far, in order
    ret,      \* the value returned
    deltas,   \* comparison engine: the delta matrix, cell -> value
    taus,     \* comparison engine: the tau matrix, cell -> value
    written,  \* comparison engine: the cells assigned so far, per matrix
    idx,      \* comparison engine: the loop position <<idx_1, idx_2>>
    f_df,     \* evaluator: the table, its rows in order
    R_dict,   \* evaluator: the metric definitions, in insertion order
    dicts,    \* evaluator: the caller's dict objects (kwargs bags), by identity
    before,   \* evaluator: the table and the dict objects as they were when the call began
    details,  \* evaluator: <<s_idxs, l_idxs>> once derived
    metric,   \* evaluator: the position in R_dict of the next metric
    given,    \* evaluator: what each metric function was called with, in order
    R_out,    \* evaluator: the result mapping R, metric name -> value
    calls     \* evaluator: the f_to_R calls the caller made before this one

pipeVars == <<heap, call, cur, log, ret>>

cmpVars == <<deltas, taus, written, idx>>

evalVars == <<f_df, R_dict, dicts, before, details, metric, given, R_out, calls>>

vars ==
    <<op, pc, err, heap, call, cur, log, ret, deltas, taus, written, idx,
      f_df, R_dict, dicts, before, details, metric, given, R_out, calls>>

-----------------------------------------------------------------------------
(* Bounds and input domains *)

MaxM == 2

MaxN == 2

\* the performance values a cell may hold
PerfVals == {Q(0), Q(2)}

NoCall ==
    [t1 |-> "", t2 |-> "", t3 |-> "", name |-> "", f |-> NoRef, maximise |-> TRUE,
     k1 |-> None, k2 |-> None, k3 |-> None]

\* the caller's f: an (m, n) ndarray, an (n, ) ndarray, or a Python list of n numbers
InputRefs ==
    {[buf |-> 1, shape |-> <<m, n>>, stride |-> n, list |-> FALSE] :
        m \in 1..MaxM, n \in 1..MaxN}
    \cup {[buf |-> 1, shape |-> <<n>>, stride |-> n, list |-> l] :
        n \in 1..MaxN, l \in BOOLEAN}

Size(r) == IF Len(r.shape) = 2 THEN r.shape[1] * r.shape[2] ELSE r.shape[1]

\* the number m of decision alternatives of the caller's f
Alternatives(r) == IF Len(r.shape) = 2 THEN r.shape[1] ELSE 1

IdleCmp ==
    /\ deltas = <<>>
    /\ taus = <<>>
    /\ written = <<{}, {}>>
    /\ idx = <<0, 0>>

IdleEval ==
    /\ f_df = <<>>
    /\ R_dict = <<>>
    /\ dicts = <<>>
    /\ before = <<>>
    /\ details = <<<<>>, <<>>>>
    /\ metric = 0
    /\ given = <<>>
    /\ R_out = <<>>
    /\ calls = <<>>

InitPipe ==
    /\ op = "pipeline"
    /\ pc = "t1"
    /\ err = "none"
    /\ \E f \in InputRefs :
          /\ \E data \in [1..Size(f) -> PerfVals] : heap = <<data>>
          /\ call = [NoCall EXCEPT !.f = f]
          /\ cur = f
    /\ log = <<>>
    /\ ret = Scalar(NaN)
    /\ IdleCmp
    /\ IdleEval

-----------------------------------------------------------------------------
(* The bags a caller passes to each stage function *)

Half == Norm(1, 2)

T1Bags(fn) ==
    CASE fn = "identity" -> {None, Some(EmptyBag)}
      [] fn = "satisficing_regret" -> {None, Some("threshold" :> Scalar(Q(1)))}
      [] fn = "regret_from_values" ->
            {Some("values" :> Scalar(Q(1))), Some("values" :> Vec(<<Q(1), Q(3)>>))}
      [] fn = "satisfice" ->
            {None, Some(("threshold" :> Scalar(Q(2))) @@ ("accept_equal" :> FALSE))}
      [] OTHER -> {None}

T2Bags(fn) ==
    CASE fn = "select_percentiles" ->
            {None, Some("percentiles" :> Vec(<<Zero, Half, One>>))}
      [] OTHER -> {None}

T3Bags(fn) ==
    CASE fn = "f_w_sum" -> {Some("weights" :> Vec(<<Half, Half>>))}
      [] fn = "f_skew" -> {None, Some("reverse" :> TRUE)}
      [] OTHER -> {None}

-----------------------------------------------------------------------------
(* custom_R_metric.__call__, one stage per step *)

Logged(stage, fn, f, maximise, kw, res) ==
    Append(log, Invocation(stage, fn, heap, f, maximise, kw) @@ ("out" :> res.r))

Finish(res) ==
    /\ heap' = res.h
    /\ cur' = res.r
    /\ err' = res.err

\* transformed_f = self.t1_func(f, maximise=maximise, **t1_kwargs)
T1Step ==
    /\ op = "pipeline" /\ pc = "t1"
    /\ \E fn \in T1Funcs, maximise \in BOOLEAN :
        \E k1 \in T1Bags(fn) :
          \E res \in {CallT1(heap, fn, call.f, maximise, OrEmpty(k1))} :
              /\ call' = [call EXCEPT !.t1 = fn, !.maximise = maximise, !.k1 = k1]
              /\ log' = Logged(1, fn, call.f, Some(maximise), OrEmpty(k1), res)
              /\ Finish(res)
              /\ pc' = IF Failed(res) THEN "raised" ELSE "t2"
    /\ UNCHANGED <<op, ret, cmpVars, evalVars>>

\* the mutant of the data flow: the selector is given f, not transformed_f
T2StepOnF ==
    /\ op = "pipeline" /\ pc = "t2"
    /\ \E fn \in T2Funcs :
        \E k2 \in T2Bags(fn) :
          \E res \in {CallT2(heap, fn, call.f, OrEmpty(k2))} :
              /\ call' = [call EXCEPT !.t2 = fn, !.k2 = k2]
              /\ log' = Logged(2, fn, call.f, None, OrEmpty(k2), res)
              /\ Finish(res)
              /\ pc' = IF Failed(res) THEN "raised" ELSE "t3"
    /\ UNCHANGED <<op, ret, cmpVars, evalVars>>

\* selected_f = self.t2_func(transformed_f, **t2_kwargs)
T2Step ==
    /\ op = "pipeline" /\ pc = "t2"
    /\ \E fn \in T2Funcs :
        \E k2 \in T2Bags(fn) :
          \E res \in {CallT2(heap, fn, cur, OrEmpty(k2))} :
              /\ call' = [call EXCEPT !.t2 = fn, !.k2 = k2]
              /\ log' = Logged(2, fn, cur, None, OrEmpty(k2), res)
              /\ Finish(res)
              /\ pc' = IF Failed(res) THEN "raised" ELSE "t3"
    /\ UNCHANGED <<op, ret, cmpVars, evalVars>>

\* R = self.t3_func(selected_f, **t3_kwargs); unwrap; return R
T3Step ==
    /\ op = "pipeline" /\ pc = "t3"
    /\ \E fn \in T3Funcs :
        \E k3 \in T3Bags(fn) :
          \E res \in {CallT3(heap, fn, cur, OrEmpty(k3))} :
              /\ call' = [call EXCEPT !.t3 = fn, !.k3 = k3]
              /\ log' = Logged(3, fn, cur, None, OrEmpty(k3), res)
              /\ Finish(res)
              /\ pc' = IF Failed(res) THEN "raised" ELSE "returned"
              /\ ret' = IF Failed(res) THEN ret ELSE Unwrap(res.h, res.r)
    /\ UNCHANGED <<op, cmpVars, evalVars>>

\* the caller runs a named metric on f instead
NamedBags(name) ==
    CASE name = "hurwicz" -> {EmptyBag, "alpha" :> Norm(3, 4)}
      [] name = "percentile_regret" -> {EmptyBag, "percentile" :> Half}
      [] name = "starrs_domain" -> {EmptyBag, "threshold" :> Scalar(Q(2))}
      [] OTHER -> {EmptyBag}

NamedCall ==
    /\ op = "pipeline" /\ pc = "t1"
    /\ \E name \in NamedMetrics, maximise \in BOOLEAN :
        \E kw \in NamedBags(name) :
          \E res \in {CallNamed(heap, name, call.f, kw @@ ("maximise" :> maximise))} :
              /\ call' = [call EXCEPT !.name = name, !.maximise = maximise, !.k1 = Some(kw)]
              /\ Finish(res)
              /\ pc' = IF Failed(res) THEN "raised" ELSE "returned"
              /\ ret' = IF Failed(res) THEN ret ELSE Value(res.h, res.r)
    /\ UNCHANGED <<op, log, cmpVars, evalVars>>

NextPipe == T1Step \/ T2Step \/ T3Step \/ NamedCall

SpecPipe == InitPipe /\ [][NextPipe]_vars


-----------------------------------------------------------------------------
(* The comparison engine: scenarios_similarity and R_metric_similarity,    *)
(* one loop iteration per step                                             *)

MaxAlt == 2

MaxK == 2

\* the robustness values a cell of R may hold
CmpVals == {Q(0), Q(1), Q(-1)}

\* the values of the taller matrices, some of whose cells are NaN
TauVals == {Q(0), Q(1)}

\* the cells of an (m, k) matrix that hold NaN: none, the first cells of the
\* first row, or the cells [a][a]
NaNMasks(m, k) ==
    {1..c : c \in 0..k}
    \cup {{((a - 1) * k) + a : a \in 1..(IF m < k THEN m ELSE k)}}

\* R: every (m, k) matrix over CmpVals for m <= MaxAlt, and matrices of
\* MaxAlt + 1 rows over TauVals with NaN (a degenerate robustness value) in
\* the cells of a mask
CmpInputs(m, k) ==
    IF m <= MaxAlt THEN [1..(m * k) -> CmpVals]
    ELSE {Force([p \in 1..(m * k) |-> IF p \in mask THEN NaN ELSE base[p]]) :
            base \in [1..(m * k) -> TauVals], mask \in NaNMasks(m, k)}

InitCmp ==
    /\ op \in {"scenarios_similarity", "R_metric_similarity"}
    /\ pc = "begin"
    /\ err = "none"
    /\ \E m \in 1..(MaxAlt + 1), k \in 1..MaxK :
          /\ \E data \in CmpInputs(m, k) : heap = <<data>>
          /\ call = [NoCall EXCEPT
                        !.f = [buf |-> 1, shape |-> <<m, k>>, stride |-> k, list |-> FALSE]]
          /\ cur = call.f
    /\ log = <<>>
    /\ ret = Scalar(NaN)
    /\ IdleCmp
    /\ IdleEval

\* n = R.shape[1]
Variants == call.f.shape[2]

Cells == (1..Variants) \X (1..Variants)

\* R[:, i]
Column(i) == Force(Col(Value(heap, call.f), i))

\* n = R.shape[1]; deltas = np.zeros((n, n)); taus = np.zeros((n, n))
CmpBegin ==
    /\ op \in {"scenarios_similarity", "R_metric_similarity"} /\ pc = "begin"
    /\ deltas' = IF op = "scenarios_similarity" THEN [c \in Cells |-> Zero] ELSE deltas
    /\ taus' = [c \in Cells |-> TauZero]
    /\ written' = <<{}, {}>>
    /\ idx' = <<1, 1>>
    /\ pc' = "loop"
    /\ UNCHANGED <<op, err, pipeVars, evalVars>>

\* for idx_1 in range(n): for idx_2 in range(idx_1, n): the position after <<i, j>>
NextIdx(i, j) == IF j < Variants THEN <<i, j + 1>> ELSE <<i + 1, i + 1>>

\* the mutant of the loop body: only the cell [idx_1, idx_2] is assigned
ScenariosStepUpper ==
    /\ op = "scenarios_similarity" /\ pc = "loop" /\ idx[1] <= Variants
    /\ \E i \in {idx[1]}, j \in {idx[2]} :
        \E delta \in {RelDelta(Column(i), Column(j))},
           tau \in {kendalltau(Column(i), Column(j))} :
          /\ deltas' = [deltas EXCEPT ![<<i, j>>] = delta]
          /\ taus' = [taus EXCEPT ![<<i, j>>] = tau]
          /\ written' = <<written[1] \cup {<<i, j>>}, written[2] \cup {<<i, j>>}>>
          /\ idx' = NextIdx(i, j)
    /\ UNCHANGED <<op, pc, err, pipeVars, evalVars>>

\* one iteration of the loop body of scenarios_similarity
ScenariosStep ==
    /\ op = "scenarios_similarity" /\ pc = "loop" /\ idx[1] <= Variants
    /\ \E i \in {idx[1]}, j \in {idx[2]} :
        \E delta \in {RelDelta(Column(i), Column(j))},
           tau \in {kendalltau(Column(i), Column(j))} :
          /\ deltas' = [deltas EXCEPT ![<<i, j>>] = delta, ![<<j, i>>] = delta]
          /\ taus' = [taus EXCEPT ![<<i, j>>] = tau, ![<<j, i>>] = tau]
          /\ written' = <<written[1] \cup {<<i, j>>, <<j, i>>},
                          written[2] \cup {<<i, j>>, <<j, i>>}>>
          /\ idx' = NextIdx(i, j)
    /\ UNCHANGED <<op, pc, err, pipeVars, evalVars>>

\* one iteration of the loop body of R_metric_similarity
RMetricStep ==
    /\ op = "R_metric_similarity" /\ pc = "loop" /\ idx[1] <= Variants
    /\ \E i \in {idx[1]}, j \in {idx[2]} :
        \E tau \in {kendalltau(Column(i), Column(j))} :
          /\ taus' = [taus EXCEPT ![<<i, j>>] = tau, ![<<j, i>>] = tau]
          /\ written' = <<written[1], written[2] \cup {<<i, j>>, <<j, i>>}>>
          /\ idx' = NextIdx(i, j)
    /\ UNCHANGED <<op, pc, err, deltas, pipeVars, evalVars>>

\* return deltas, taus / return taus
CmpReturn ==
    /\ op \in {"scenarios_similarity", "R_metric_similarity"} /\ pc = "loop"
    /\ idx[1] > Variants
    /\ pc' = "returned"
    /\ UNCHANGED <<op, err, pipeVars, cmpVars, evalVars>>

NextCmp == CmpBegin \/ ScenariosStep \/ RMetricStep \/ CmpReturn

SpecCmp == InitCmp /\ [][NextCmp]_vars

\* the transforms, the metrics and the comparison operations together
InitOps == InitPipe \/ InitCmp

NextOps == NextPipe \/ NextCmp

SpecOps == InitOps /\ [][NextOps]_vars


-----------------------------------------------------------------------------
(* The tabular evaluator: the table, np.allclose, sort_f_df and            *)
(* get_f_df_details                                                        *)

\* the columns of the table
Columns == {"s_idx", "l_idx", "return", "critical"}

\* 1 / rtol of np.allclose, rtol = 1e-5; atol = 1e-8 is below every integer step
RTolInv == 100000

\* np.isclose(a, b) of two integers: |a - b| <= atol + rtol * |b|
IsClose(a, b) == Abs(a - b) <= Abs(b) \div RTolInv

\* np.allclose(a, b) of two 1-D integer arrays; operands that do not broadcast raise
AllClose(a, b) ==
    IF Len(a) # Len(b) /\ Len(a) # 1 /\ Len(b) # 1 THEN "ValueError"
    ELSE IF \A k \in 1..(IF Len(a) > Len(b) THEN Len(a) ELSE Len(b)) :
                IsClose(a[IF Len(a) = 1 THEN 1 ELSE k], b[IF Len(b) = 1 THEN 1 ELSE k])
         THEN "True"
         ELSE "False"

\* Series.unique(): the distinct values in order of first appearance
RECURSIVE unique(_)
unique(s) ==
    IF Len(s) = 0 THEN <<>>
    ELSE With(unique(SubSeq(s, 1, Len(s) - 1)), LAMBDA u :
             IF \E k \in 1..Len(u) : u[k] = s[Len(s)] THEN u ELSE Append(u, s[Len(s)]))

\* f_df[col].values
ColumnOf(df, col) == Force([p \in 1..Len(df) |-> df[p][col]])

KeyLe(r1, r2) ==
    r1.l_idx < r2.l_idx \/ (r1.l_idx = r2.l_idx /\ r1.s_idx <= r2.s_idx)

RECURSIVE InsertRow(_, _)
InsertRow(r, df) ==
    IF Len(df) = 0 THEN <<r>>
    ELSE IF ~KeyLe(df[Len(df)], r) THEN Append(InsertRow(r, SubSeq(df, 1, Len(df) - 1)), df[Len(df)])
    ELSE Append(df, r)

\* DataFrame.sort_values(['l_idx', 's_idx'], ascending=[True, True]): a sorted
\* copy; the frame it is called on keeps its order
RECURSIVE sort_values(_)
sort_values(df) ==
    IF Len(df) = 0 THEN <<>>
    ELSE With(sort_values(SubSeq(df, 1, Len(df) - 1)), LAMBDA t : InsertRow(df[Len(df)], t))

\* f_df.sort_values(...) is evaluated and its result dropped; return f_df
sort_f_df(df) == With(sort_values(df), LAMBDA sorted : df)

\* relevant_rows['l_idx'].values for one scenario index
RelevantLIdxs(df, s_idx) ==
    ColumnOf(SelectSeq(df, LAMBDA r : r.s_idx = s_idx), "l_idx")

\* s_idxs, l_idxs and the exception of the first failing check, "none" if none
get_f_df_details(f_df_in) ==
    With(sort_f_df(f_df_in), LAMBDA df :
    With(<<unique(ColumnOf(df, "s_idx")), unique(ColumnOf(df, "l_idx"))>>, LAMBDA u :
    With([k \in 1..Len(u[1]) |-> AllClose(RelevantLIdxs(df, u[1][k]), u[2])], LAMBDA checks :
        LET bad == {k \in 1..Len(u[1]) : checks[k] # "True"}
            first == CHOOSE k \in bad : \A j \in bad : k <= j
        IN  [err |-> IF bad = {} THEN "none"
                     ELSE IF checks[first] = "ValueError" THEN "ValueError"
                     ELSE "AssertionError",
             s_idxs |-> u[1], l_idxs |-> u[2]])))


-----------------------------------------------------------------------------
(* f_to_R: the metric definitions and the loop over them                   *)

\* np.reshape(f_df.iloc[:, f_df.columns.get_loc(col)].values, newshape=(L, S))
Reshape(df, col, L, S) ==
    IF col \notin Columns THEN [err |-> "KeyError", value |-> Scalar(NaN)]
    ELSE IF Len(df) # L * S THEN [err |-> "ValueError", value |-> Scalar(NaN)]
    ELSE [err |-> "none", value |-> Arr(<<L, S>>, ColumnOf(df, col))]

\* the mutant of the column check: nothing is checked
ColumnsUnchecked(rd, cols) == TRUE

\* for f_metric in f_metrics: assert f_metric in df_cols
ColumnsPresent(rd, cols) == \A k \in 1..Len(rd) : rd[k].f \in cols

\* R_dict[R_metric]['func'](f, **kwargs): kw is the kwargs dict, ds the dict
\* objects its nested bags live in
CallFunc(func, f, kw, ds) ==
    LET h == <<f.data>>
        ref == [buf |-> 1, shape |-> f.shape, stride |-> f.shape[2], list |-> FALSE]
        Nested(key) == IF key \in DOMAIN kw THEN Some(ds[kw[key].ref]) ELSE None
    IN  IF func.kind = "custom"
        THEN IF ~(DOMAIN kw \subseteq {"maximise", "t1_kwargs", "t2_kwargs", "t3_kwargs"})
             THEN [err |-> "TypeError", value |-> Scalar(NaN)]
             ELSE With(custom_R_metric(h, func.t1, func.t2, func.t3, ref,
                                       Get(kw, "maximise", TRUE), Nested("t1_kwargs"),
                                       Nested("t2_kwargs"), Nested("t3_kwargs")),
                       LAMBDA res : [err |-> res.err, value |-> res.ret])
        ELSE With(CallNamed(h, func.name, ref, kw),
                  LAMBDA res : [err |-> res.err,
                                value |-> IF Failed(res) THEN Scalar(NaN)
                                          ELSE Value(res.h, res.r)])

\* the outcome of one loop iteration
Iteration(ds, e, invoked, f, value) ==
    [dicts |-> ds, err |-> e, invoked |-> invoked, f |-> f, value |-> value]

\* kwargs['t1_kwargs'] = {} unless present
WithT1Kwargs(ds, id) ==
    IF "t1_kwargs" \in DOMAIN ds[id] THEN ds
    ELSE Append([ds EXCEPT ![id] = ("t1_kwargs" :> [ref |-> Len(ds) + 1]) @@ @], EmptyBag)

\* the mutant of the item assignment: d.setdefault(key, value)
SetItemIfAbsent(ds, id, key, value) ==
    IF key \in DOMAIN ds[id] THEN ds ELSE [ds EXCEPT ![id] = (key :> value) @@ @]

\* d[key] = value on the dict object id
SetItem(ds, id, key, value) == [ds EXCEPT ![id] = (key :> value) @@ @]

\* the body of the loop for the metric definition d
MetricBody(ds, d, df, L, S) ==
    LET Pass(ds1) ==
            With(Reshape(df, d.f, L, S), LAMBDA f :
                IF f.err # "none" THEN Iteration(ds1, f.err, FALSE, Scalar(NaN), Scalar(NaN))
                ELSE With(SetItem(ds1, d.kwargs, "maximise", d.maximise), LAMBDA ds2 :
                     With(CallFunc(d.func, f.value, ds2[d.kwargs], ds2), LAMBDA res :
                         Iteration(ds2, res.err, TRUE, f.value, res.value))))
    IN  IF d.threshold = None THEN Pass(ds)
        ELSE IF d.threshold[1] \notin Columns
        THEN Iteration(ds, "AssertionError", FALSE, Scalar(NaN), Scalar(NaN))
        ELSE With(WithT1Kwargs(ds, d.kwargs), LAMBDA ds1 :
             With(Reshape(df, d.threshold[1], L, S), LAMBDA t :
                 IF t.err # "none" THEN Iteration(ds1, t.err, FALSE, Scalar(NaN), Scalar(NaN))
                 ELSE Pass(SetItem(ds1, ds1[d.kwargs]["t1_kwargs"].ref, "threshold", t.value))))


-----------------------------------------------------------------------------
(* f_to_R: the caller's inputs                                             *)

MaxRows == 4

MaxMetrics == 2

\* the scenario and decision-alternative indices a row may carry
SIdx == {0, 1}

LIdx == {0, 100000, 100001}

\* the row of scenario s and decision alternative l; its values tell it apart
TableRow(s, l) ==
    [s_idx |-> s, l_idx |-> l, return |-> Q((10 * s) + (l % 7)), critical |-> Q((10 * s) + 3)]

TableRows == {TableRow(s, l) : s \in SIdx, l \in LIdx}

\* every table of 1..MaxRows rows, in every order, duplicates and gaps included
Tables == UNION {[1..n -> TableRows] : n \in 1..MaxRows}

\* two well-formed tables, sorted by (l_idx, s_idx): 2 x 2 and 1 x 2
FewTables ==
    {<<TableRow(0, 0), TableRow(1, 0), TableRow(0, 100000), TableRow(1, 100000)>>,
     <<TableRow(0, 0), TableRow(1, 0)>>}

Custom(t1, t2, t3) == [kind |-> "custom", t1 |-> t1, t2 |-> t2, t3 |-> t3, name |-> ""]

Named(name) == [kind |-> "named", t1 |-> "", t2 |-> "", t3 |-> "", name |-> name]

Funcs ==
    {Custom("identity", "worst_case", "f_mean"),
     Custom("satisfice", "worst_case", "f_mean"),
     Custom("satisficing_regret", "all_scenarios", "f_mean"),
     Named("laplace")}

\* one metric definition as the caller writes it; nested tells whether its
\* kwargs holds a t1_kwargs bag
Choice(f, maximise, threshold, func, nested) ==
    [f |-> f, maximise |-> maximise, threshold |-> threshold, func |-> func,
     nested |-> nested]

MetricChoices ==
    {Choice("return", TRUE, t, fn, n) :
        t \in {None, Some("critical"), Some("absent")}, fn \in Funcs, n \in BOOLEAN}
    \cup {Choice("return", FALSE, None, Custom("identity", "worst_case", "f_mean"), FALSE)}
    \cup {Choice("absent", TRUE, t, Custom("identity", "worst_case", "f_mean"), FALSE) :
            t \in {None, Some("absent")}}

\* the definitions used with the tables of every shape
PlainChoices ==
    {<<Choice("return", TRUE, None, Custom("identity", "worst_case", "f_mean"), FALSE)>>,
     <<Choice("return", TRUE, Some("critical"), Custom("satisfice", "worst_case", "f_mean"),
              FALSE)>>}

MetricNames == <<"R1", "R2", "R3", "R4">>

\* the dict objects of the caller: metric k's kwargs is object 2k - 1, its
\* t1_kwargs bag (when it has one) object 2k
DictsOf(choices) ==
    [id \in 1..(2 * Len(choices)) |->
        LET c == choices[(id + 1) \div 2]
        IN  IF ~c.nested THEN EmptyBag
            ELSE IF id % 2 = 1 THEN "t1_kwargs" :> [ref |-> id + 1]
            ELSE "threshold" :> Scalar(Q(5))]

RDictOf(choices) ==
    [k \in 1..Len(choices) |->
        [name |-> MetricNames[k], f |-> choices[k].f, maximise |-> choices[k].maximise,
         threshold |-> choices[k].threshold, func |-> choices[k].func,
         kwargs |-> (2 * k) - 1]]

InitEval ==
    /\ op = "f_to_R"
    /\ pc = "validate"
    /\ err = "none"
    /\ heap = <<>>
    /\ call = NoCall
    /\ cur = NoRef
    /\ log = <<>>
    /\ ret = Scalar(NaN)
    /\ IdleCmp
    /\ \E table \in Tables \cup FewTables :
        \E choices \in IF table \in FewTables
                       THEN UNION {[1..n -> MetricChoices] : n \in 1..MaxMetrics}
                       ELSE PlainChoices :
          /\ f_df = table
          /\ R_dict = Force(RDictOf(choices))
          /\ dicts = Force(DictsOf(choices))
          /\ before = [f_df |-> table, dicts |-> Force(DictsOf(choices))]
    /\ details = <<<<>>, <<>>>>
    /\ metric = 0
    /\ given = <<>>
    /\ R_out = <<>>
    /\ calls = <<>>


-----------------------------------------------------------------------------
(* f_to_R, one step per check and per loop iteration                       *)

\* the column assertions, sort_f_df and get_f_df_details
Validate ==
    /\ op = "f_to_R" /\ pc = "validate"
    /\ IF ~ColumnsPresent(R_dict, Columns)
       THEN /\ pc' = "raised"
            /\ err' = "AssertionError"
            /\ UNCHANGED <<f_df, details, metric>>
       ELSE \E sorted \in {sort_f_df(f_df)} :
            \E det \in {get_f_df_details(sorted)} :
              /\ f_df' = sorted
              /\ err' = det.err
              /\ pc' = IF det.err = "none" THEN "loop" ELSE "raised"
              /\ details' = IF det.err = "none" THEN <<det.s_idxs, det.l_idxs>> ELSE details
              /\ metric' = IF det.err = "none" THEN 1 ELSE metric
    /\ UNCHANGED <<op, R_dict, dicts, before, given, R_out, calls, pipeVars, cmpVars>>

\* what a metric function was called with
Given(d, f, kw, ds) ==
    [name |-> d.name, f |-> f,
     kwargs |-> [key \in DOMAIN kw |->
                    IF key \in {"t1_kwargs", "t2_kwargs", "t3_kwargs"}
                    THEN ds[kw[key].ref] ELSE kw[key]]]

\* the mutant of the loop: a failing metric is skipped and the loop goes on
MetricStepIsolating ==
    /\ op = "f_to_R" /\ pc = "loop" /\ metric <= Len(R_dict)
    /\ \E d \in {R_dict[metric]} :
        \E it \in {MetricBody(dicts, d, f_df, Len(details[2]), Len(details[1]))} :
          /\ dicts' = it.dicts
          /\ given' = IF it.invoked
                      THEN Append(given, Given(d, it.f, it.dicts[d.kwargs], it.dicts))
                      ELSE given
          /\ R_out' = IF it.err = "none" THEN (d.name :> it.value) @@ R_out ELSE R_out
          /\ metric' = metric + 1
    /\ UNCHANGED <<op, pc, err, f_df, R_dict, before, details, calls, pipeVars, cmpVars>>

\* one iteration of for R_metric in R_dict
MetricStep ==
    /\ op = "f_to_R" /\ pc = "loop" /\ metric <= Len(R_dict)
    /\ \E d \in {R_dict[metric]} :
        \E it \in {MetricBody(dicts, d, f_df, Len(details[2]), Len(details[1]))} :
          /\ dicts' = it.dicts
          /\ given' = IF it.invoked
                      THEN Append(given, Given(d, it.f, it.dicts[d.kwargs], it.dicts))
                      ELSE given
          /\ err' = it.err
          /\ pc' = IF it.err = "none" THEN "loop" ELSE "raised"
          /\ R_out' = IF it.err = "none" THEN (d.name :> it.value) @@ R_out ELSE R_out
          /\ metric' = IF it.err = "none" THEN metric + 1 ELSE metric
    /\ UNCHANGED <<op, f_df, R_dict, before, details, calls, pipeVars, cmpVars>>

\* return R
EvalReturn ==
    /\ op = "f_to_R" /\ pc = "loop" /\ metric > Len(R_dict)
    /\ pc' = "returned"
    /\ UNCHANGED <<op, err, pipeVars, cmpVars, evalVars>>

NextEval == Validate \/ MetricStep \/ EvalReturn

SpecEval == InitEval /\ [][NextEval]_vars


-----------------------------------------------------------------------------
(* A caller who calls f_to_R more than once with the same R_dict object,   *)
(* and whose metric definitions may share one kwargs dict                  *)

MaxCalls == 2

\* the numbers of metric definitions tried
SessionMetrics == {1, 2}

SessionFuncs ==
    {Custom("identity", "worst_case", "f_mean"), Custom("satisfice", "worst_case", "f_mean")}

SessionChoices ==
    {Choice("return", mx, t, fn, FALSE) :
        mx \in BOOLEAN, t \in {None, Some("critical")}, fn \in SessionFuncs}

\* the definitions of the session: each with its own kwargs dict (object k),
\* or all with the dict object 1
SessionRDict(choices, shared) ==
    [k \in 1..Len(choices) |->
        [name |-> MetricNames[k], f |-> choices[k].f, maximise |-> choices[k].maximise,
         threshold |-> choices[k].threshold, func |-> choices[k].func,
         kwargs |-> IF shared THEN 1 ELSE k]]

SessionDicts(choices) == [id \in 1..Len(choices) |-> EmptyBag]

InitSession ==
    /\ op = "f_to_R"
    /\ pc = "validate"
    /\ err = "none"
    /\ heap = <<>>
    /\ call = NoCall
    /\ cur = NoRef
    /\ log = <<>>
    /\ ret = Scalar(NaN)
    /\ IdleCmp
    /\ \E table \in FewTables, n \in SessionMetrics :
        \E choices \in [1..n -> SessionChoices], shared \in BOOLEAN :
          /\ shared => n > 1
          /\ f_df = table
          /\ R_dict = Force(SessionRDict(choices, shared))
          /\ dicts = Force(SessionDicts(choices))
          /\ before = [f_df |-> table, dicts |-> Force(SessionDicts(choices))]
    /\ details = <<<<>>, <<>>>>
    /\ metric = 0
    /\ given = <<>>
    /\ R_out = <<>>
    /\ calls = <<>>

\* the caller's edits to R_dict between two calls: none, or 'threshold': None
\* in every definition
Edited(rd, edit) ==
    IF edit = "none" THEN rd
    ELSE [k \in 1..Len(rd) |-> [rd[k] EXCEPT !.threshold = None]]

\* f_to_R(f_df, R_dict) once more, with the dict objects as the last call left
\* them
CallAgain ==
    /\ op = "f_to_R" /\ pc \in {"returned", "raised"}
    /\ Len(calls) + 1 < MaxCalls
    /\ \E edit \in {"none", "no threshold"} :
          R_dict' = Force(Edited(R_dict, edit))
    /\ calls' = Append(calls, [R_dict |-> R_dict, supplied |-> before.dicts,
                               given |-> given, err |-> err, R_out |-> R_out])
    /\ before' = [f_df |-> f_df, dicts |-> dicts]
    /\ pc' = "validate"
    /\ err' = "none"
    /\ details' = <<<<>>, <<>>>>
    /\ metric' = 0
    /\ given' = <<>>
    /\ R_out' = <<>>
    /\ UNCHANGED <<op, f_df, dicts, pipeVars, cmpVars>>

NextSession == Validate \/ MetricStep \/ EvalReturn \/ CallAgain

SpecSession == InitSession /\ [][NextSession]_vars


-----------------------------------------------------------------------------
(* Direct calls: the caller applies one transform, one selector or one     *)
(* named metric to a performance matrix f of m decision alternatives and   *)
(* n scenarios                                                             *)

MaxScen == 3

\* the numbers of decision alternatives tried
DirectRows == {1, 2}

\* the performance values a cell may hold
DirectVals == {Q(-1), Q(0), Q(2)}

MaxCells == 6

\* a matrix of more than MaxCells cells holds two values only
CellVals(size) == IF size <= MaxCells THEN DirectVals ELSE {Q(-1), Q(2)}

\* the thresholds tried: one that cells equal, one that only some reach
Thresholds == {Scalar(Q(0)), Scalar(Q(2))}

DirectT1Bags(fn, n) ==
    CASE fn \in {"satisficing_regret"} ->
            {"threshold" :> Scalar(Q(1)), "threshold" :> Vec([j \in 1..n |-> Q(j - 1)])}
      [] fn = "regret_from_values" ->
            {"values" :> Scalar(Q(1)), "values" :> Vec([j \in 1..n |-> Q(j - 1)])}
      [] fn = "satisfice" ->
            {EmptyBag}
            \cup {("threshold" :> t) @@ ("accept_equal" :> e) : t \in Thresholds, e \in BOOLEAN}
      [] OTHER -> {EmptyBag}

DirectT2Bags(fn) ==
    CASE fn = "select_percentiles" ->
            {"percentiles" :> Vec(ps) :
                ps \in {<<Zero>>, <<One>>, <<Zero, Half, One>>, <<Norm(3, 4), Norm(1, 4)>>}}
      [] OTHER -> {EmptyBag}

DirectNamedBags(name) ==
    CASE name = "hurwicz" -> {EmptyBag} \cup {"alpha" :> a : a \in {Zero, Norm(3, 4), One}}
      [] name = "percentile_regret" ->
            {EmptyBag} \cup {"percentile" :> q : q \in {Zero, Half, One}}
      [] name = "starrs_domain" ->
            {EmptyBag}
            \cup {("threshold" :> t) @@ ("accept_equal" :> e) : t \in Thresholds, e \in BOOLEAN}
      [] OTHER -> {EmptyBag}

InitDirect ==
    /\ op = "direct"
    /\ pc = "call"
    /\ err = "none"
    /\ \E m \in DirectRows, n \in 1..MaxScen :
          /\ \E data \in [1..(m * n) -> CellVals(m * n)] : heap = <<data>>
          /\ call = [NoCall EXCEPT
                        !.f = [buf |-> 1, shape |-> <<m, n>>, stride |-> n, list |-> FALSE]]
          /\ cur = call.f
    /\ log = <<>>
    /\ ret = Scalar(NaN)
    /\ IdleCmp
    /\ IdleEval

\* the call returns the array res.r, or raises
Return(res) ==
    /\ Finish(res)
    /\ pc' = IF Failed(res) THEN "raised" ELSE "returned"
    /\ ret' = IF Failed(res) THEN ret ELSE Value(res.h, res.r)

\* t1.fn(f, maximise=maximise, **kw)
DirectT1 ==
    /\ op = "direct" /\ pc = "call"
    /\ \E fn \in T1Funcs, maximise \in BOOLEAN :
        \E kw \in DirectT1Bags(fn, call.f.shape[2]) :
          \E res \in {CallT1(heap, fn, call.f, maximise, kw)} :
              /\ call' = [call EXCEPT !.t1 = fn, !.maximise = maximise, !.k1 = Some(kw)]
              /\ Return(res)
    /\ UNCHANGED <<op, log, cmpVars, evalVars>>

\* t2.fn(f, **kw)
DirectT2 ==
    /\ op = "direct" /\ pc = "call"
    /\ \E fn \in T2Funcs :
        \E kw \in DirectT2Bags(fn) :
          \E res \in {CallT2(heap, fn, call.f, kw)} :
              /\ call' = [call EXCEPT !.t2 = fn, !.k2 = Some(kw)]
              /\ Return(res)
    /\ UNCHANGED <<op, log, cmpVars, evalVars>>

\* common_metrics.name(f, maximise=maximise, **kw)
DirectNamed ==
    /\ op = "direct" /\ pc = "call"
    /\ \E name \in NamedMetrics, maximise \in BOOLEAN :
        \E kw \in DirectNamedBags(name) :
          \E res \in {CallNamed(heap, name, call.f, kw @@ ("maximise" :> maximise))} :
              /\ call' = [call EXCEPT !.name = name, !.maximise = maximise, !.k1 = Some(kw)]
              /\ Return(res)
    /\ UNCHANGED <<op, log, cmpVars, evalVars>>

NextDirect == DirectT1 \/ DirectT2 \/ DirectNamed

SpecDirect == InitDirect /\ [][NextDirect]_vars

-----------------------------------------------------------------------------
(* Direct calls of the aggregators: the caller applies one t3 function to  *)
(* a selected matrix of m decision alternatives and n' columns             *)

MaxCols == 5

\* the cell values tried: three for one alternative, two for two
AggVals(m) == IF m = 1 THEN DirectVals ELSE PerfVals

AggBags(fn, n) ==
    CASE fn = "f_w_sum" -> {"weights" :> Vec([j \in 1..n |-> Half])}
      [] fn = "f_skew" -> {EmptyBag, "reverse" :> FALSE, "reverse" :> TRUE}
      [] OTHER -> {EmptyBag}

InitAgg ==
    /\ op = "aggregate"
    /\ pc = "call"
    /\ err = "none"
    /\ \E m \in DirectRows, n \in 1..MaxCols :
          /\ \E data \in [1..(m * n) -> AggVals(m)] : heap = <<data>>
          /\ call = [NoCall EXCEPT
                        !.f = [buf |-> 1, shape |-> <<m, n>>, stride |-> n, list |-> FALSE]]
          /\ cur = call.f
    /\ log = <<>>
    /\ ret = Scalar(NaN)
    /\ IdleCmp
    /\ IdleEval

\* t3.fn(f, **kw)
DirectT3 ==
    /\ op = "aggregate" /\ pc = "call"
    /\ \E fn \in T3Funcs :
        \E kw \in AggBags(fn, call.f.shape[2]) :
          \E res \in {CallT3(heap, fn, call.f, kw)} :
              /\ call' = [call EXCEPT !.t3 = fn, !.k3 = Some(kw)]
              /\ Return(res)
    /\ UNCHANGED <<op, log, cmpVars, evalVars>>

\* the named metrics built on percentile columns
PercentileMetrics == {"percentile_skew", "percentile_kurtosis"}

\* common_metrics.name(f, maximise=maximise)
DirectPercentile ==
    /\ op = "aggregate" /\ pc = "call"
    /\ \E name \in PercentileMetrics, maximise \in BOOLEAN :
          \E res \in {CallNamed(heap, name, call.f, "maximise" :> maximise)} :
              /\ call' = [call EXCEPT !.name = name, !.maximise = maximise,
                                      !.k1 = Some(EmptyBag)]
              /\ Return(res)
    /\ UNCHANGED <<op, log, cmpVars, evalVars>>

NextAgg == DirectT3 \/ DirectPercentile

SpecAgg == InitAgg /\ [][NextAgg]_vars


-----------------------------------------------------------------------------
(* Properties of the metric composer and the named metrics                 *)

Composed == op = "pipeline" /\ call.name = ""

StageFuncs == <<call.t1, call.t2, call.t3>>

StageBags == <<call.k1, call.k2, call.k3>>

\* C1: custom_R_metric.__call__ invokes T1, T2, T3 once each in that order;
\* T1 is given f, the maximise flag and t1_kwargs, T2 the object T1 returned
\* and t2_kwargs, T3 the object T2 returned and t3_kwargs; a bag left out is
\* the empty bag; maximise reaches T1 only; the value returned is T3's output,
\* its single element when its first axis has length 1.
C1_StagesInOrder ==
    Composed =>
        /\ pc = "t1" => Len(log) = 0
        /\ pc = "t2" => Len(log) = 1
        /\ pc = "t3" => Len(log) = 2
        /\ pc = "returned" => Len(log) = 3
        /\ pc = "raised" => Len(log) \in 1..3 /\ err # "none"
        /\ \A k \in 1..Len(log) :
              /\ log[k].stage = k
              /\ log[k].fn = StageFuncs[k]
              /\ log[k].kwargs = (IF StageBags[k] = None THEN EmptyBag ELSE StageBags[k][1])
              /\ log[k].maximise = (IF k = 1 THEN Some(call.maximise) ELSE None)
              /\ log[k].arg = (IF k = 1 THEN call.f ELSE log[k - 1].out)
        /\ pc = "returned" =>
              LET out == log[3].out
              IN  IF out.shape[1] = 1
                  THEN ret = Scalar(heap[out.buf][1])
                  ELSE ret = Arr(out.shape, SubSeq(heap[out.buf], 1, out.shape[1]))

\* a composed call that returned, whose T1 allocated a new array and whose
\* t1_kwargs was left out
C1_Witness ==
    /\ Composed
    /\ pc = "returned"
    /\ Len(log) = 3
    /\ log[2].arg # call.f
    /\ call.k1 = None

C8_InputsNotWritten ==
    [][/\ Len(heap') >= Len(heap)
       /\ \A b \in 1..Len(heap) : heap'[b] = heap[b]]_vars

\* satisficing_regret has zeroed an entry of its result where the caller's
\* matrix still holds the value above the threshold
C8_Witness ==
    /\ Composed
    /\ pc = "t2"
    /\ call.t1 = "satisficing_regret"
    /\ call.maximise
    /\ cur.buf # call.f.buf
    /\ \E k \in 1..Len(heap[1]) : heap[1][k] = Q(2) /\ heap[cur.buf][k] = Zero


-----------------------------------------------------------------------------
(* Properties of the transforms and the named metrics, called directly     *)

\* the caller's matrix f
Input == Value(heap, call.f)

\* the heap in which the caller's object holds -f
Negated == <<NegArr(Input).data>>

\* the array a call yields
ValueOf(res) == Value(res.h, res.r)

DirectT1Returned(fn) == op = "direct" /\ pc = "returned" /\ call.t1 = fn

DirectT2Returned(fn) == op = "direct" /\ pc = "returned" /\ call.t2 = fn

DirectNamedReturned(name) == op = "direct" /\ pc = "returned" /\ call.name = name

\* the keyword arguments of the direct call
DirectKw == call.k1[1]

IsMinOf(v, s) == (\E k \in 1..Len(s) : s[k] = v) /\ (\A k \in 1..Len(s) : QLe(v, s[k]))

IsMaxOf(v, s) == (\E k \in 1..Len(s) : s[k] = v) /\ (\A k \in 1..Len(s) : QLe(s[k], v))

\* C12: for an (m, n) matrix f, identity(f, maximise=True) is f: the same
\* object, shape and values; identity(f, maximise=False) has the shape of f,
\* every cell the negation of the cell of f, and equals the elementwise
\* negation of identity(f, maximise=True).
C12_IdentityNegation ==
    DirectT1Returned("identity") =>
        /\ ret.shape = Input.shape
        /\ call.maximise => cur = call.f /\ ret = Input
        /\ ~call.maximise =>
              /\ \A k \in 1..Len(ret.data) : ret.data[k] = QNeg(Input.data[k])
              /\ ret = NegArr(ValueOf(identity(heap, call.f, TRUE)))

\* identity(f, maximise=False) returned for a 2 x 3 matrix that holds 2 and -1
C12_Witness ==
    /\ DirectT1Returned("identity")
    /\ ~call.maximise
    /\ ret.shape = <<2, 3>>
    /\ Input.data[1] = Q(2)
    /\ ret.data[1] = Q(-2)
    /\ Input.data[6] = Q(-1)
    /\ ret.data[6] = Q(1)

\* C13 (as the code has it): maximin(f) is the negation of maximax(-f), both
\* called with maximise=True: maximin(f) + maximax(-f) is 0 in every element,
\* for f and for -f; worst_case(f) is the negation of best_case(-f) and
\* best_case(f) the negation of worst_case(-f).
C13_MaximinMaximaxDual ==
    /\ (DirectNamedReturned("maximin") /\ call.maximise) =>
          \E other \in {maximax(Negated, call.f, TRUE)} :
              /\ ~Failed(other)
              /\ ValueOf(other).shape = ret.shape
              /\ \A i \in 1..Len(ret.data) :
                    QAdd(ret.data[i], ValueOf(other).data[i]) = Zero
    /\ (DirectNamedReturned("maximax") /\ call.maximise) =>
          \E other \in {maximin(Negated, call.f, TRUE)} :
              /\ ~Failed(other)
              /\ ValueOf(other).shape = ret.shape
              /\ \A i \in 1..Len(ret.data) :
                    QAdd(ValueOf(other).data[i], ret.data[i]) = Zero
    /\ DirectT2Returned("worst_case") =>
          ret = NegArr(ValueOf(best_case(Negated, call.f)))
    /\ DirectT2Returned("best_case") =>
          ret = NegArr(ValueOf(worst_case(Negated, call.f)))

\* C13 as stated: maximin(f) + (-maximax(-f)) is 0 in every element
C13_AsStated ==
    (DirectNamedReturned("maximin") /\ call.maximise) =>
        \E other \in {maximax(Negated, call.f, TRUE)} :
            \A i \in 1..Len(ret.data) :
                QAdd(ret.data[i], QNeg(ValueOf(other).data[i])) = Zero

\* maximin(f, maximise=True) returned <<-1, 0>> for a 2 x 3 matrix whose rows
\* have their minimum in the last and in the middle scenario
C13_Witness ==
    /\ DirectNamedReturned("maximin")
    /\ call.maximise
    /\ Input = Arr(<<2, 3>>, <<Q(0), Q(2), Q(-1), Q(2), Q(0), Q(2)>>)
    /\ ret = Vec(<<Q(-1), Q(0)>>)

\* C14: for every row i, maximin(f, maximise=True)[i] is the minimum of row i
\* and maximin(f, maximise=False)[i] the negated maximum; maximax(f,
\* maximise=True)[i] is the maximum and maximax(f, maximise=False)[i] the
\* negated minimum; maximin(f, maximise=False) = -maximax(f, maximise=True).
C14_MaximinMaximaxValues ==
    (DirectNamedReturned("maximin") \/ DirectNamedReturned("maximax")) =>
        /\ ret.shape = <<NRows(Input)>>
        /\ \A i \in 1..NRows(Input) :
              /\ (call.name = "maximin" /\ call.maximise) =>
                    IsMinOf(ret.data[i], Row(Input, i))
              /\ (call.name = "maximin" /\ ~call.maximise) =>
                    IsMaxOf(QNeg(ret.data[i]), Row(Input, i))
              /\ (call.name = "maximax" /\ call.maximise) =>
                    IsMaxOf(ret.data[i], Row(Input, i))
              /\ (call.name = "maximax" /\ ~call.maximise) =>
                    IsMinOf(QNeg(ret.data[i]), Row(Input, i))
        /\ (call.name = "maximin" /\ ~call.maximise) =>
              ret = NegArr(ValueOf(maximax(heap, call.f, TRUE)))

\* maximin(f, maximise=False) returned <<-2, 0>> for the rows <<0, 2, -1>> and
\* <<-1, -1, 0>>
C14_Witness ==
    /\ DirectNamedReturned("maximin")
    /\ ~call.maximise
    /\ Input = Arr(<<2, 3>>, <<Q(0), Q(2), Q(-1), Q(-1), Q(-1), Q(0)>>)
    /\ ret = Vec(<<Q(-2), Q(0)>>)

\* f' = identity(f, maximise), cell [i][j]
Signed(i, j) == IF call.maximise THEN At(Input, i, j) ELSE QNeg(At(Input, i, j))

\* C15: regret_from_best_da(f, maximise) has the shape of f and cell [i][j]
\* equal to f'[i][j] minus the largest f'[a][j] over the alternatives a,
\* f' = identity(f, maximise); every cell is <= 0 and every column holds a 0;
\* minimax_regret(f, maximise)[i] is the minimum of row i of that matrix and
\* is <= 0.
C15_RegretFromBest ==
    /\ DirectT1Returned("regret_from_best_da") =>
          /\ ret.shape = Input.shape
          /\ \A j \in 1..NCols(Input) :
                /\ \E a \in 1..NRows(Input) :
                      /\ \A i \in 1..NRows(Input) : QLe(Signed(i, j), Signed(a, j))
                      /\ \A i \in 1..NRows(Input) :
                            At(ret, i, j) = QSub(Signed(i, j), Signed(a, j))
                /\ \A i \in 1..NRows(Input) : QLe(At(ret, i, j), Zero)
                /\ \E i \in 1..NRows(Input) : At(ret, i, j) = Zero
    /\ DirectNamedReturned("minimax_regret") =>
          \E regret \in {ValueOf(regret_from_best_da(heap, call.f, call.maximise))} :
              /\ ret.shape = <<NRows(Input)>>
              /\ \A i \in 1..NRows(Input) :
                    /\ IsMinOf(ret.data[i], Row(regret, i))
                    /\ QLe(ret.data[i], Zero)

\* regret_from_best_da(f, maximise=False) returned for two alternatives that
\* are each the best in one scenario
C15_Witness ==
    /\ DirectT1Returned("regret_from_best_da")
    /\ ~call.maximise
    /\ Input = Arr(<<2, 2>>, <<Q(0), Q(2), Q(2), Q(-1)>>)
    /\ ret = Arr(<<2, 2>>, <<Q(0), Q(-3), Q(-2), Q(0)>>)

\* C16: satisfice(f, maximise=False, threshold=t, accept_equal) equals cell
\* for cell satisfice(-f, maximise=True, threshold=-t, accept_equal), and the
\* other way round; every cell of the output is 1 or 0 and the output has
\* the shape of f.
C16_SatisficeSymmetry ==
    DirectT1Returned("satisfice") =>
        LET t == Get(DirectKw, "threshold", Scalar(Zero))
            accept_equal == Get(DirectKw, "accept_equal", TRUE)
        IN  /\ ret.shape = Input.shape
            /\ \A k \in 1..Len(ret.data) : ret.data[k] \in {Zero, One}
            /\ ret = ValueOf(satisfice(Negated, call.f, ~call.maximise, NegArr(t),
                                       accept_equal))

\* satisfice(f, maximise=False, threshold=2, accept_equal=False) returned:
\* the cell holding 2 is not accepted, the cell holding 0 is
C16_Witness ==
    /\ DirectT1Returned("satisfice")
    /\ ~call.maximise
    /\ DirectKw = ("threshold" :> Scalar(Q(2))) @@ ("accept_equal" :> FALSE)
    /\ \E k \in 1..Len(ret.data) : Input.data[k] = Q(2) /\ ret.data[k] = Zero
    /\ \E k \in 1..Len(ret.data) : Input.data[k] = Q(0) /\ ret.data[k] = One

\* scenario j satisfies the threshold for alternative i
Satisfies(i, j, maximise, t, accept_equal) ==
    IF maximise
    THEN IF accept_equal THEN QGe(At(Input, i, j), t) ELSE QGt(At(Input, i, j), t)
    ELSE IF accept_equal THEN QLe(At(Input, i, j), t) ELSE QLt(At(Input, i, j), t)

\* C17: starrs_domain(f, maximise, t, accept_equal)[i] is the number of
\* scenarios j that satisfy the threshold divided by n: f[i][j] >= t when
\* maximising, f[i][j] <= t when minimising, strictly when accept_equal is
\* False; the result lies in [0, 1].
C17_StarrsDomainFraction ==
    DirectNamedReturned("starrs_domain") =>
        LET t == Get(DirectKw, "threshold", Scalar(Zero)).data[1]
            accept_equal == Get(DirectKw, "accept_equal", TRUE)
            n == NCols(Input)
            Count(i) ==
                Cardinality({j \in 1..n : Satisfies(i, j, call.maximise, t, accept_equal)})
        IN  /\ ret.shape = <<NRows(Input)>>
            /\ \A i \in 1..NRows(Input) :
                  /\ ret.data[i] = Norm(Count(i), n)
                  /\ QLe(Zero, ret.data[i])
                  /\ QLe(ret.data[i], One)

\* starrs_domain(f, maximise=False, threshold=0, accept_equal=False) returned
\* <<1/3, 0>>: one of three scenarios is below 0 in the first row, none in
\* the second
C17_Witness ==
    /\ DirectNamedReturned("starrs_domain")
    /\ ~call.maximise
    /\ DirectKw = ("threshold" :> Scalar(Q(0))) @@ ("accept_equal" :> FALSE)
    /\ ret = Vec(<<Norm(1, 3), Zero>>)


-----------------------------------------------------------------------------
(* Properties of the scenario selectors, called directly                   *)

\* v is the element of row at position r, counted from 0, in ascending order
IsRankOf(v, row, r) ==
    /\ \E k \in 1..Len(row) : row[k] = v
    /\ Cardinality({k \in 1..Len(row) : QLt(row[k], v)}) <= r
    /\ r < Cardinality({k \in 1..Len(row) : QLe(row[k], v)})

\* the integer nearest to p * (n - 1), the even one of two equally near
NearestIndex(p, n) ==
    CHOOSE r \in 0..(n - 1) :
        /\ 2 * Abs((p[1] * (n - 1)) - (r * p[2])) <= p[2]
        /\ 2 * Abs((p[1] * (n - 1)) - (r * p[2])) = p[2] => r % 2 = 0

\* the percentiles of the direct call
Requested == call.k2[1]["percentiles"].data

\* C18: select_percentiles(f, percentiles) has shape (m, len(percentiles));
\* cell [i][c] is the element of row i at position round(percentiles[c] *
\* (n - 1)) in ascending order, a half rounded to the even position as
\* np.around and Python's round do: an element of the row, never an
\* interpolated value; column c belongs to the c-th percentile requested;
\* percentile 0 gives the row's minimum and percentile 1 its maximum.
C18_NearestRankPercentiles ==
    DirectT2Returned("select_percentiles") =>
        /\ ret.shape = <<NRows(Input), Len(Requested)>>
        /\ \A i \in 1..NRows(Input), c \in 1..Len(Requested) :
              /\ IsRankOf(At(ret, i, c), Row(Input, i),
                          NearestIndex(Requested[c], NCols(Input)))
              /\ Requested[c] = Zero => IsMinOf(At(ret, i, c), Row(Input, i))
              /\ Requested[c] = One => IsMaxOf(At(ret, i, c), Row(Input, i))

\* select_percentiles(f, [0.75, 0.25]) returned for the row <<0, 2, -1>>: the
\* positions 1.5 and 0.5 round to 2 and 0, the columns come as requested
C18_Witness ==
    /\ DirectT2Returned("select_percentiles")
    /\ Requested = <<Norm(3, 4), Norm(1, 4)>>
    /\ Input = Arr(<<1, 3>>, <<Q(0), Q(2), Q(-1)>>)
    /\ ret = Arr(<<1, 2>>, <<Q(2), Q(-1)>>)

\* the numbers of scenarios for which the count of the worst half is compared
MaxColumns == 64

\* C19: worst_half keeps int(n / 2 + 0.51) columns, which is ceil(n / 2) for
\* every n from 1 to MaxColumns; column c of row i of the result is the
\* element of row i of f at position c - 1 in ascending order, so the kept
\* columns are the row's ceil(n / 2) smallest values in ascending order.
C19_WorstHalfCount ==
    DirectT2Returned("worst_half") =>
        /\ \A n \in 1..MaxColumns : HalfCount(n) = (n + 1) \div 2
        /\ ret.shape = <<NRows(Input), HalfCount(NCols(Input))>>
        /\ ret.shape = <<NRows(Input), (NCols(Input) + 1) \div 2>>
        /\ \A i \in 1..NRows(Input), c \in 1..NCols(ret) :
              IsRankOf(At(ret, i, c), Row(Input, i), c - 1)

\* worst_half returned two of three scenarios for each of two alternatives
C19_Witness ==
    /\ DirectT2Returned("worst_half")
    /\ Input = Arr(<<2, 3>>, <<Q(2), Q(-1), Q(0), Q(0), Q(2), Q(0)>>)
    /\ ret = Arr(<<2, 2>>, <<Q(-1), Q(0), Q(0), Q(0)>>)

\* the number n' of columns each selector is said to return for n scenarios
SelectedCount(fn, n) ==
    CASE fn = "all_scenarios" -> n
      [] fn \in {"worst_case", "best_case"} -> 1
      [] fn = "worst_and_best_cases" -> 2
      [] fn = "worst_half" -> (n + 1) \div 2
      [] fn = "select_percentiles" -> Len(Requested)

\* C20 (as the code has it): every selector applied to an (m, n) matrix,
\* m >= 1 and n >= 1, returns a matrix of m rows and n' columns: n' = n for
\* all_scenarios, 1 for worst_case and best_case, ceil(n / 2) for worst_half,
\* and for these 1 <= n' <= n; n' = 2 for worst_and_best_cases also when
\* n = 1, and n' is the number of requested percentiles for
\* select_percentiles also when that exceeds n.
C20_SelectorShapes ==
    (op = "direct" /\ call.t2 # "") =>
        /\ pc = "returned"
        /\ ret.shape = <<NRows(Input), SelectedCount(call.t2, NCols(Input))>>
        /\ call.t2 \in {"all_scenarios", "worst_case", "best_case", "worst_half"} =>
              1 <= NCols(ret) /\ NCols(ret) <= NCols(Input)

\* worst_and_best_cases returned two columns for a matrix of one scenario
C20_Witness ==
    /\ DirectT2Returned("worst_and_best_cases")
    /\ Input.shape = <<2, 1>>
    /\ ret.shape = <<2, 2>>

\* C20 as stated: the result has m rows and n' columns with 1 <= n' <= n
C20_AsStated ==
    (op = "direct" /\ call.t2 # "" /\ pc = "returned") =>
        /\ ret.shape = <<NRows(Input), SelectedCount(call.t2, NCols(Input))>>
        /\ 1 <= NCols(ret)
        /\ NCols(ret) <= NCols(Input)


-----------------------------------------------------------------------------
(* Properties of the comparison engine                                     *)

\* R[a, i]
Entry(a, i) == heap[call.f.buf][((a - 1) * call.f.stride) + i]

Alts == 1..call.f.shape[1]

SpecDelta(i, j) ==
    QDiv(QMul(Q(100),
              SeqSum([a \in Alts |->
                         QDiv(QMul(Two, QAbs(QSub(Entry(a, i), Entry(a, j)))),
                              QAbs(QAdd(Entry(a, i), Entry(a, j))))])),
         Q(call.f.shape[1]))

KeptAlts(i) ==
    IF \E a \in Alts : IsNaN(Entry(a, i))
    THEN {a \in Alts : IsFinite(Entry(a, i))}
    ELSE Alts

\* the triple denotes a number in [-1, 1]
TauInRange(t) == t[2] > 0 /\ t[3] > 0 /\ t[1] * t[1] <= t[2] * t[3]

\* the triple denotes 1
TauIsOne(t) == t[1] > 0 /\ t[1] = t[2] /\ t[1] = t[3]

-----------------------------------------------------------------------------
(* Properties of the tabular evaluator                                     *)

Evaluating == op = "f_to_R"

Ended == pc \in {"returned", "raised"}

SOf(df) == {df[p].s_idx : p \in 1..Len(df)}

LOf(df) == {df[p].l_idx : p \in 1..Len(df)}

\* every pair of a scenario index and a decision-alternative index is the key
\* of exactly one row
IsCartesian(df) ==
    /\ Len(df) = Cardinality(SOf(df)) * Cardinality(LOf(df))
    /\ \A s \in SOf(df), l \in LOf(df) :
          \E p \in 1..Len(df) : df[p].s_idx = s /\ df[p].l_idx = l

\* some scenario index lacks a decision-alternative index of the table
Incomplete(df) ==
    \E s \in SOf(df) : {df[p].l_idx : p \in {q \in 1..Len(df) : df[q].s_idx = s}} # LOf(df)

\* the matrix of the table ordered by (l_idx, s_idx)
Canonical(df) ==
    Arr(<<Cardinality(LOf(df)), Cardinality(SOf(df))>>, ColumnOf(sort_values(df), "return"))

\* C3: for a complete Cartesian table in any row order f_to_R passes its
\* checks and hands every metric the matrix whose entry [i][j] is the value of
\* the row with the i-th smallest l_idx and the j-th smallest s_idx.
C3_RowOrderIrrelevant ==
    (Evaluating /\ pc # "validate" /\ IsCartesian(before.f_df)) =>
        /\ metric >= 1
        /\ \A k \in 1..Len(given) : given[k].f = Canonical(before.f_df)

\* C4: for a table in which some scenario index lacks a decision-alternative
\* index f_to_R raises before any metric function is called and never returns.
C4_IncompleteRejected ==
    (Evaluating /\ Incomplete(before.f_df)) =>
        /\ given = <<>>
        /\ pc # "returned"
        /\ pc = "raised" => err \in {"AssertionError", "ValueError"}

MissingF == \E k \in 1..Len(R_dict) : R_dict[k].f \notin Columns

MissingThreshold(k) ==
    R_dict[k].threshold # None /\ R_dict[k].threshold[1] \notin Columns

\* C5 (as the code has it): a missing performance column makes f_to_R raise
\* AssertionError before anything else happens; a missing threshold column
\* is looked for only when the loop reaches its metric, so the call never
\* returns a result, and raises AssertionError at that metric, without
\* calling its function, unless the checks of the table or an earlier metric
\* raised first.
C5_MissingColumnFails ==
    Evaluating =>
        /\ (MissingF /\ pc # "validate") =>
              pc = "raised" /\ err = "AssertionError" /\ given = <<>> /\ R_out = <<>>
        /\ \A k \in 1..Len(R_dict) :
              MissingThreshold(k) =>
                  /\ pc # "returned"
                  /\ metric <= k
                  /\ \A g \in 1..Len(given) : given[g].name # MetricNames[k]
                  /\ (pc = "raised" /\ metric = k) =>
                        err = "AssertionError" /\ Len(given) = k - 1

\* the second metric names a missing threshold column and the first metric's
\* function raised before that was looked at
C5_Witness ==
    /\ Evaluating
    /\ pc = "raised"
    /\ Len(R_dict) = 2
    /\ MissingThreshold(2)
    /\ ~MissingThreshold(1)
    /\ metric = 1
    /\ err = "TypeError"

\* C5 as stated: a missing performance or threshold column always ends the
\* call with a schema error
C5_AsStated ==
    (Evaluating /\ Ended /\ (MissingF \/ \E k \in 1..Len(R_dict) : MissingThreshold(k))) =>
        pc = "raised" /\ err = "AssertionError"

NamesUpTo(n) == {MetricNames[k] : k \in 1..n}

\* C6 (as the code has it): a metric that fails ends the whole call: the
\* exception leaves f_to_R, nothing is returned, and no later metric is
\* computed; f_to_R returns only when every metric was computed.
C6_FailureAbortsCall ==
    Evaluating =>
        /\ pc = "returned" =>
              /\ DOMAIN R_out = NamesUpTo(Len(R_dict))
              /\ Len(given) = Len(R_dict)
              /\ err = "none"
        /\ (pc = "raised" /\ metric >= 1) =>
              /\ err # "none"
              /\ DOMAIN R_out = NamesUpTo(metric - 1)
              /\ Len(given) \in {metric - 1, metric}
              /\ \A k \in 1..Len(given) : given[k].name = MetricNames[k]

\* the first of two metrics raised in its function; the second was never computed
C6_Witness ==
    /\ Evaluating
    /\ pc = "raised"
    /\ Len(R_dict) = 2
    /\ metric = 1
    /\ Len(given) = 1
    /\ ~MissingThreshold(2)
    /\ R_dict[2].func = Named("laplace")
    /\ DOMAIN R_out = {}

\* C6 as stated: when one metric fails every other metric is still in the output
C6_AsStated ==
    (Evaluating /\ pc = "raised" /\ metric >= 1) =>
        \A k \in 1..Len(R_dict) : k # metric => MetricNames[k] \in DOMAIN R_out

\* C7: when f_to_R has ended, every dict object of R_dict holds the keys and
\* values it held before the call and the table has the same rows in the
\* same order.
C7_InputsUnchanged ==
    (Evaluating /\ Ended) =>
        /\ f_df = before.f_df
        /\ \A id \in 1..Len(before.dicts) : dicts[id] = before.dicts[id]


\* f_to_R returned for a complete Cartesian table, having handed a metric a
\* matrix that is not the one of the sorted table
C3_Witness ==
    /\ Evaluating
    /\ pc = "returned"
    /\ IsCartesian(before.f_df)
    /\ Cardinality(LOf(before.f_df)) = 2
    /\ \E k \in 1..Len(given) : given[k].f # Canonical(before.f_df)

\* f_to_R returned for a table in which a scenario index lacks a
\* decision-alternative index
C4_Witness ==
    /\ Evaluating
    /\ pc = "returned"
    /\ Incomplete(before.f_df)
    /\ Len(given) = 1

\* f_to_R returned and the kwargs of its only metric, empty before the call,
\* now holds the key 'maximise'
C7_Witness ==
    /\ Evaluating
    /\ pc = "returned"
    /\ Len(R_dict) = 1
    /\ before.dicts[1] = EmptyBag
    /\ DOMAIN dicts[1] = {"maximise"}

-----------------------------------------------------------------------------
(* Properties of the aggregators, called directly                          *)

AggCalled(fn) == op = "aggregate" /\ pc # "call" /\ call.t3 = fn

AggReturned(fn) == op = "aggregate" /\ pc = "returned" /\ call.t3 = fn

\* the column count each aggregator's docstring asks for
ColumnsNeeded(fn) ==
    CASE fn = "f_identity" -> 1
      [] fn = "f_skew" -> 3
      [] fn = "f_kurtosis" -> 4

ColumnAggregators == {"f_identity", "f_skew", "f_kurtosis"}

\* C21, as stated: f_identity, f_skew and f_kurtosis fail, returning nothing,
\* whenever the matrix does not have exactly 1, 3 and 4 columns, and return a
\* vector of length m when it has
C21_ColumnCountEnforced ==
    \A fn \in ColumnAggregators :
        AggCalled(fn) =>
            IF call.f.shape[2] = ColumnsNeeded(fn)
            THEN pc = "returned" /\ ret.shape = <<call.f.shape[1]>>
            ELSE pc = "raised" /\ err # "none"

\* C21, what the code does: only a matrix with too few columns fails
\* (IndexError); f_skew and f_kurtosis read their first 3 and 4 columns of a
\* wider matrix and return m values, and f_identity never fails and returns
\* all m * n' cells
C21_OnlyTooFewColumnsFail ==
    /\ \A fn \in {"f_skew", "f_kurtosis"} :
          AggCalled(fn) =>
              IF call.f.shape[2] < ColumnsNeeded(fn)
              THEN pc = "raised" /\ err = "IndexError"
              ELSE pc = "returned" /\ ret.shape = <<call.f.shape[1]>>
    /\ AggCalled("f_identity") =>
          /\ pc = "returned"
          /\ ret = Arr(<<call.f.shape[1] * call.f.shape[2]>>, Input.data)

\* f_identity returned four values for two decision alternatives
C21_Witness ==
    AggReturned("f_identity") /\ call.f.shape = <<2, 2>> /\ ret.shape = <<4>>

-----------------------------------------------------------------------------
(* Properties of the arguments f_to_R hands to the metric functions        *)

\* the column col of the table laid out as f_to_R reshapes it: cell (i, j)
\* holds the value of table row (i - 1) * S + j
Laid(col) ==
    Arr(<<Len(details[2]), Len(details[1])>>, [p \in 1..Len(f_df) |-> f_df[p][col]])

\* the kwargs bag of definition d as the caller supplied it, and its t1_kwargs
\* bag ({} when it has none)
Supplied(d) ==
    LET b == before.dicts[d.kwargs]
    IN  [key \in DOMAIN b |->
            IF key = "t1_kwargs" THEN before.dicts[b[key].ref] ELSE b[key]]

SuppliedT1(d) ==
    IF "t1_kwargs" \in DOMAIN Supplied(d) THEN Supplied(d)["t1_kwargs"] ELSE EmptyBag

-----------------------------------------------------------------------------
(* Properties of the regret transforms and the named metrics built on the  *)
(* worst and best cases, called directly                                   *)

\* the threshold of scenario j: a scalar applies to every scenario
ThresholdAt(t, j) == IF NDim(t) = 0 THEN t.data[1] ELSE t.data[j]

\* cell (i, j) of f meets the threshold t
Met(i, j, t) ==
    IF call.maximise THEN QGe(At(Input, i, j), ThresholdAt(t, j))
    ELSE QLe(At(Input, i, j), ThresholdAt(t, j))

\* C23: satisficing_regret(f, threshold, maximise) is cell for cell
\* min(0, regret_from_values(f, threshold, maximise)): every entry is <= 0, it
\* is 0 exactly when the cell meets the threshold (f >= threshold when
\* maximising, f <= threshold when minimising) and minus the magnitude of the
\* shortfall otherwise; a scalar threshold gives the result of the vector
\* repeating it once per scenario
C23_SatisficingRegret ==
    DirectT1Returned("satisficing_regret") =>
        LET t == DirectKw["threshold"]
            regret == ValueOf(regret_from_values(heap, call.f, t, call.maximise))
            repeated == Vec([j \in 1..NCols(Input) |-> t.data[1]])
        IN  /\ ret.shape = Input.shape
            /\ \A i \in 1..NRows(Input), j \in 1..NCols(Input) :
                  /\ At(ret, i, j) = QMin(Zero, At(regret, i, j))
                  /\ QLe(At(ret, i, j), Zero)
                  /\ At(ret, i, j) = Zero <=> Met(i, j, t)
                  /\ ~Met(i, j, t) =>
                        At(ret, i, j)
                          = QNeg(QAbs(QSub(At(Input, i, j), ThresholdAt(t, j))))
            /\ NDim(t) = 0 =>
                  ret = ValueOf(satisficing_regret(heap, call.f, repeated, call.maximise))

\* satisficing_regret returned, minimising, for a per-scenario threshold that
\* one cell equals, one cell is below and one cell exceeds
C23_Witness ==
    /\ DirectT1Returned("satisficing_regret")
    /\ ~call.maximise
    /\ NDim(DirectKw["threshold"]) = 1
    /\ \E i \in 1..NRows(Input), j \in 1..NCols(Input) :
          At(Input, i, j) = ThresholdAt(DirectKw["threshold"], j)
    /\ \E i \in 1..NRows(Input), j \in 1..NCols(Input) : At(ret, i, j) = Q(-1)
    /\ \E i \in 1..NRows(Input), j \in 1..NCols(Input) :
          QLt(At(Input, i, j), ThresholdAt(DirectKw["threshold"], j))

\* row i of f as the metrics see it: negated when minimising
SignedRow(i) == [j \in 1..NCols(Input) |-> Signed(i, j)]

\* C24: hurwicz(f, maximise, alpha)[i] is alpha * maximin(f, maximise)[i]
\* + (1 - alpha) * maximax(f, maximise)[i], i.e. alpha times the worst and
\* 1 - alpha times the best signed value of row i; alpha = 1 gives maximin,
\* alpha = 0 maximax and the default alpha their midpoint
C24_HurwiczWeightedSum ==
    DirectNamedReturned("hurwicz") =>
        LET alpha == Get(DirectKw, "alpha", Half)
            worst == ValueOf(maximin(heap, call.f, call.maximise))
            best == ValueOf(maximax(heap, call.f, call.maximise))
        IN  /\ ret.shape = <<NRows(Input)>>
            /\ \A i \in 1..NRows(Input) :
                  /\ ret.data[i] = QAdd(QMul(alpha, worst.data[i]),
                                        QMul(QSub(One, alpha), best.data[i]))
                  /\ ret.data[i] = QAdd(QMul(alpha, SeqMin(SignedRow(i))),
                                        QMul(QSub(One, alpha), SeqMax(SignedRow(i))))
                  /\ "alpha" \notin DOMAIN DirectKw =>
                        ret.data[i] = QDiv(QAdd(worst.data[i], best.data[i]), Two)
            /\ alpha = One => ret = worst
            /\ alpha = Zero => ret = best

\* hurwicz returned, minimising with alpha = 3/4, for a row whose worst and
\* best cases differ
C24_Witness ==
    /\ DirectNamedReturned("hurwicz")
    /\ ~call.maximise
    /\ "alpha" \in DOMAIN DirectKw
    /\ DirectKw["alpha"] = Norm(3, 4)
    /\ NCols(Input) = 3
    /\ SeqMin(SignedRow(1)) = Q(-2)
    /\ SeqMax(SignedRow(1)) = Q(1)
    /\ ret.data[1] = Norm(-5, 4)

-----------------------------------------------------------------------------
(* Properties of the percentile metrics                                    *)

PercentileReturned(name) == op = "aggregate" /\ pc = "returned" /\ call.name = name

\* the nearest-rank positions of the 10th, 50th and 90th percentiles among n
\* values mirror each other when the row is reversed
Mirrored(n) ==
    /\ NearestIndex(Norm(1, 10), n) + NearestIndex(Norm(9, 10), n) = n - 1
    /\ 2 * NearestIndex(Half, n) = n - 1

\* percentile_skew of the same f with the other maximise flag
OtherSkew == ValueOf(percentile_skew(heap, call.f, ~call.maximise))

\* C25, as stated: for every n >= 1, percentile_skew(f, maximise=False)[i] is
\* -percentile_skew(f, maximise=True)[i] wherever the skew is defined
C25_AsStated ==
    PercentileReturned("percentile_skew") =>
        \A i \in 1..NRows(Input) :
            ~IsNaN(ret.data[i]) => ret.data[i] = QNeg(OtherSkew.data[i])

\* C25: percentile_skew(f, maximise=False) is -percentile_skew(f, maximise=True)
\* (NaN where undefined) when the nearest-rank positions of the three
\* percentiles are mirrored, which they are for every odd n and not for even
\* n; for n = 2 both calls return the same value, -1 for a row of two
\* different values; f_skew(g, reverse=True) is -f_skew(g, reverse=False) for
\* every g it accepts
C25_SkewNegation ==
    /\ PercentileReturned("percentile_skew") =>
          LET n == NCols(Input)
          IN  /\ Mirrored(n) <=> n % 2 = 1
              /\ Mirrored(n) => ret = NegArr(OtherSkew)
              /\ n = 2 =>
                    /\ ret = OtherSkew
                    /\ \A i \in 1..NRows(Input) :
                          At(Input, i, 1) # At(Input, i, 2) => ret.data[i] = Q(-1)
    /\ AggReturned("f_skew") =>
          ret = NegArr(ValueOf(f_skew(heap, call.f, ~Get(call.k3[1], "reverse", FALSE))))

\* percentile_skew returned, minimising, a defined non-zero skew for a row of
\* five scenarios
C25_Witness ==
    /\ PercentileReturned("percentile_skew")
    /\ ~call.maximise
    /\ NCols(Input) = 5
    /\ ~IsNaN(ret.data[1])
    /\ ret.data[1] # Zero

\* maximin and maximax of the f of the call in progress
Worst == ValueOf(maximin(heap, call.f, call.maximise))

Best == ValueOf(maximax(heap, call.f, call.maximise))

\* C26: laplace(f, maximise)[i] and, for alpha in [0, 1],
\* hurwicz(f, maximise, alpha)[i] lie between maximin(f, maximise)[i] and
\* maximax(f, maximise)[i]; laplace is the row mean of identity(f, maximise),
\* and f_sum returns on that matrix what f_mean returns
C26_BetweenWorstAndBest ==
    /\ \A name \in {"laplace", "hurwicz"} :
          DirectNamedReturned(name) =>
              /\ QLe(Zero, Get(DirectKw, "alpha", Half)) /\ QLe(Get(DirectKw, "alpha", Half), One)
              /\ \A i \in 1..NRows(Input) :
                    QLe(Worst.data[i], ret.data[i]) /\ QLe(ret.data[i], Best.data[i])
    /\ DirectNamedReturned("laplace") =>
          /\ ret.shape = <<NRows(Input)>>
          /\ \A i \in 1..NRows(Input) :
                ret.data[i] = QDiv(SeqSum(SignedRow(i)), Q(NCols(Input)))
          /\ \A i \in 1..NRows(Input) : QLe(Worst.data[i], Best.data[i])
          /\ ret = ValueOf(Then(identity(heap, call.f, call.maximise), f_mean))
          /\ ret = ValueOf(Then(identity(heap, call.f, call.maximise), f_sum))

\* laplace returned, minimising, a mean strictly between the worst and the
\* best case of a row of three scenarios
C26_Witness ==
    /\ DirectNamedReturned("laplace")
    /\ ~call.maximise
    /\ NCols(Input) = 3
    /\ QLt(Worst.data[1], ret.data[1])
    /\ QLt(ret.data[1], Best.data[1])

\* the percentiles tried, in ascending order: the one after q (1 after itself)
LaterPercentile(q) ==
    CASE q = Zero -> Norm(1, 10)
      [] q = Norm(1, 10) -> Half
      [] OTHER -> One

\* percentile_regret of the f of the call in progress at percentile q
RegretAt(q) == ValueOf(percentile_regret(heap, call.f, call.maximise, q))

\* C27: percentile_regret(f, maximise, 0.0) equals minimax_regret(f, maximise);
\* for each decision alternative percentile_regret does not decrease when the
\* percentile grows (from each percentile tried to the next); every value of
\* it is <= 0
C27_PercentileRegret ==
    DirectNamedReturned("percentile_regret") =>
        LET percentile == Get(DirectKw, "percentile", Norm(1, 10))
        IN  /\ ret.shape = <<NRows(Input)>>
            /\ percentile = Zero =>
                  ret = ValueOf(minimax_regret(heap, call.f, call.maximise))
            /\ \A i \in 1..NRows(Input) : QLe(ret.data[i], Zero)
            /\ QLt(percentile, LaterPercentile(percentile)) \/ percentile = One
            /\ \E later \in {RegretAt(LaterPercentile(percentile))} :
                  \A i \in 1..NRows(Input) : QLe(ret.data[i], later.data[i])

\* percentile_regret returned at percentile 0 a regret below the one it has
\* at percentile 1/2 for the same row
C27_Witness ==
    /\ DirectNamedReturned("percentile_regret")
    /\ Get(DirectKw, "percentile", Norm(1, 10)) = Zero
    /\ QLt(ret.data[1], RegretAt(Half).data[1])
    /\ QLt(RegretAt(Half).data[1], Zero)

\* row i of regret_from_median(f, maximise): the row minus its own median,
\* negated when minimising
MedianRegretRow(i) ==
    LET median == Median(Row(Input, i))
    IN  [j \in 1..NCols(Input) |->
            IF call.maximise THEN QSub(At(Input, i, j), median)
            ELSE QNeg(QSub(At(Input, i, j), median))]

\* the ceil(n / 2) smallest entries of that row
LowerHalf(i) == SubSeq(SortAsc(MedianRegretRow(i)), 1, (NCols(Input) + 1) \div 2)

\* C28: undesirable_deviations(f, maximise)[i] is the mean of the ceil(n / 2)
\* smallest entries of row i of regret_from_median, each of which is <= 0; it
\* is <= 0, and 0 exactly when all of those entries are 0 (the values equal
\* the median)
C28_UndesirableDeviations ==
    DirectNamedReturned("undesirable_deviations") =>
        /\ ret.shape = <<NRows(Input)>>
        /\ \A i \in 1..NRows(Input) :
              \E low \in {LowerHalf(i)} :
                  /\ ret.data[i] = QDiv(SeqSum(low), Q(Len(low)))
                  /\ \A k \in 1..Len(low) : QLe(low[k], Zero)
                  /\ QLe(ret.data[i], Zero)
                  /\ ret.data[i] = Zero <=> \A k \in 1..Len(low) : low[k] = Zero

\* undesirable_deviations returned, minimising, 0 for one row (its upper half
\* equals its median) and a negative value for the other, with three scenarios
C28_Witness ==
    /\ DirectNamedReturned("undesirable_deviations")
    /\ ~call.maximise
    /\ Input.shape = <<2, 3>>
    /\ ret.data[1] = Zero
    /\ Row(Input, 1)[1] # Row(Input, 1)[3]
    /\ QLt(ret.data[2], Zero)

\* the p-th percentile of row i of identity(f, maximise) by nearest rank
Pct(i, p) == SortAsc(SignedRow(i))[NearestIndex(p, NCols(Input)) + 1]

\* C29: the percentile columns percentile_skew and percentile_kurtosis select
\* are non-decreasing from left to right in every row; percentile_skew lies in
\* [-1, 1] where p90 # p10 and percentile_kurtosis is >= 1 where p75 # p25; a
\* row with p90 = p10 (skew) or p75 = p25 (kurtosis) yields NaN or an infinity;
\* neither metric raises
C29_PercentileOrderAndRange ==
    /\ (op = "aggregate" /\ call.name \in PercentileMetrics) => pc = "returned"
    /\ PercentileReturned("percentile_skew") =>
          \A i \in 1..NRows(Input) :
              \E p \in {<<Pct(i, Norm(1, 10)), Pct(i, Half), Pct(i, Norm(9, 10))>>} :
                  /\ QLe(p[1], p[2]) /\ QLe(p[2], p[3])
                  /\ p[3] # p[1] =>
                        /\ QLe(Q(-1), ret.data[i]) /\ QLe(ret.data[i], One)
                        /\ ret.data[i] = QDiv(QSub(QMul(Two, p[2]), QAdd(p[3], p[1])),
                                              QSub(p[3], p[1]))
                  /\ p[3] = p[1] => IsNaN(ret.data[i]) \/ IsInf(ret.data[i])
    /\ PercentileReturned("percentile_kurtosis") =>
          \A i \in 1..NRows(Input) :
              \E p \in {<<Pct(i, Norm(1, 10)), Pct(i, Norm(1, 4)), Pct(i, Norm(3, 4)),
                          Pct(i, Norm(9, 10))>>} :
                  /\ QLe(p[1], p[2]) /\ QLe(p[2], p[3]) /\ QLe(p[3], p[4])
                  /\ p[3] # p[2] =>
                        /\ QGe(ret.data[i], One)
                        /\ ret.data[i] = QDiv(QSub(p[4], p[1]), QSub(p[3], p[2]))
                  /\ p[3] = p[2] => IsNaN(ret.data[i]) \/ IsInf(ret.data[i])

\* percentile_kurtosis returned, for five scenarios, a finite kurtosis for one
\* row and +inf for the other, whose 25th and 75th percentiles coincide
C29_Witness ==
    /\ PercentileReturned("percentile_kurtosis")
    /\ Input.shape = <<2, 5>>
    /\ IsFinite(ret.data[1])
    /\ QGe(ret.data[1], One)
    /\ ret.data[2] = <<1, 0>>
    /\ Pct(2, Norm(1, 4)) = Pct(2, Norm(3, 4))

-----------------------------------------------------------------------------
(* Properties of repeated f_to_R calls and of shared kwargs dicts          *)

\* the dict objects as the caller wrote them, before the first call
Written == IF calls = <<>> THEN before.dicts ELSE calls[1].supplied

\* what definition d's function should receive if it depended only on the
\* table and on d: the kwargs the caller wrote, maximise, and the threshold
\* column when d names one
Expected(d) ==
    IF d.threshold = None THEN ("maximise" :> d.maximise) @@ Written[d.kwargs]
    ELSE ("maximise" :> d.maximise)
         @@ ("t1_kwargs" :> ("threshold" :> Laid(d.threshold[1])))
         @@ Written[d.kwargs]

\* C30, as stated: in every call of a sequence each metric function receives
\* kwargs that depend only on the table and on its own definition as the
\* caller supplied it, nothing injected for another metric or by an earlier
\* call; and a call repeated with the same R_dict returns the same results
C30_NoLeakBetweenMetricsOrCalls ==
    Evaluating =>
        /\ \A k \in 1..Len(given) : given[k].kwargs = Expected(R_dict[k])
        /\ \A c \in 1..Len(calls) :
              (pc = "returned" /\ calls[c].R_dict = R_dict /\ calls[c].err = "none")
                  => R_out = calls[c].R_out

\* C30, what the code keeps: every metric function receives its own
\* definition's maximise flag, and the threshold column of its own definition
\* when it names one; a definition that names none receives whatever
\* t1_kwargs its kwargs dict holds at that moment
C30_OwnMaximiseAndNamedThreshold ==
    Evaluating =>
        \A k \in 1..Len(given) :
            /\ given[k].kwargs["maximise"] = R_dict[k].maximise
            /\ R_dict[k].threshold # None =>
                  given[k].kwargs["t1_kwargs"]["threshold"] = Laid(R_dict[k].threshold[1])

\* in a second call, whose definition no longer names a threshold column, the
\* metric function received the threshold the first call injected
C30_Witness ==
    /\ Evaluating
    /\ Len(calls) = 1
    /\ Len(R_dict) = 1
    /\ calls[1].R_dict[1].threshold = Some("critical")
    /\ R_dict[1].threshold = None
    /\ Len(given) = 1
    /\ "t1_kwargs" \in DOMAIN given[1].kwargs
    /\ given[1].kwargs["t1_kwargs"] = ("threshold" :> Laid("critical"))

=============================================================================
